---- MODULE Spec2Model ----
(***************************************************************************)
(* A model of the document loading pipeline of arklex/utils/loader.py:     *)
(* Loader.crawl_urls, Loader.get_all_urls / get_outsource_urls /           *)
(* _check_url, Loader.get_candidates_websites, Loader.to_crawled_text,     *)
(* Loader.to_crawled_local_objs / crawl_file and Loader.chunk; of           *)
(* LogContext, handle_exceptions and with_retry of                         *)
(* arklex/utils/logging_utils.py; and of format_intent_input and           *)
(* process_slot_response of arklex/orchestrator/NLU/services/              *)
(* model_service.py.                                                       *)
(*                                                                         *)
(* Python strings are sequences of characters (one-character TLA+ strings, *)
(* or one atom standing for a fixed run of characters of a message).       *)
(* Python's None is the empty tuple <<>> and a present value v is <<v>>.   *)
(***************************************************************************)
EXTENDS Integers, Sequences, FiniteSets, TLC

VARIABLES
    \* ---- Loader entry points that build CrawledObjects
    pc,              \* position of the caller: idle, crawling, returned, raised,
                     \* chunked, rechunked
    mistral_key,     \* MISTRAL_API_KEY as read from the environment at import
    url_objects,     \* crawl_urls: the argument, a list of DocObject
    docs,            \* crawl_urls: the local list docs
    crawl_i,         \* crawl_urls: how many url_objects the for loop has taken
    fetch_log,       \* crawl_urls: what the browser did for each item so far
    driver_acquired, \* crawl_urls: number of webdriver.Chrome(...) sessions created
    driver_quit,     \* crawl_urls: number of driver.quit() calls
    result,          \* the list the entry point returned
    entry,           \* which entry point produced result
    local_objs,      \* to_crawled_local_objs: the local list of DocObject
    extract_log,     \* crawl_file: the extractor called for each file, and what it did
    doc_objs,        \* chunk: the argument, a list of CrawledObject
    chunk_docs,      \* chunk: the local list docs
    langchain_docs,  \* chunk: the local list langchain_docs, which chunk returns
    \* ---- Loader.get_all_urls
    explore_pc,      \* loop, done
    base_arg,        \* the base_url argument as passed
    base_url,        \* base_url after line 234
    max_num,
    web,             \* the site: page -> [status, links]
    urls_visited,
    urls_to_visit,
    fetched,         \* the pages get_outsource_urls was called on, in order
    explore_result,  \* <<>> or <<the returned list>>
    prev_result,     \* the list an earlier execution with the same arguments returned
    \* ---- Loader.get_candidates_websites
    rank_pc,         \* ready, returned, raised
    rank_urls,       \* the argument urls
    top_k,
    pr,              \* the local pr: node id -> PageRank score
    rank_result,     \* the returned list
    \* ---- logging_utils.LogContext
    loggers,         \* the registry of the logging module: name -> Logger
    contexts,        \* the LogContext objects constructed so far, each with the
                     \* level argument it was constructed with
    parent_read,     \* the last read of a parent property and what it returned
    \* ---- logging_utils.handle_exceptions
    handle_pc,       \* idle, ready, returned, raised
    handle_cfg,      \* the decorator's arguments
    handle_out,      \* what the wrapped function did
    handle_result,   \* what the call of the wrapper did
    handle_logged,   \* the records handed to logger.log
    \* ---- logging_utils.with_retry
    retry_pc,        \* idle, calling, returned, raised
    retry_cfg,       \* the decorator's arguments
    attempt_number,  \* tenacity's attempt_number
    invocations,     \* what each invocation of the wrapped function did
    retry_warnings,  \* number of logger.warning calls
    retry_result,    \* what the call of the wrapper did
    \* ---- ModelService.format_intent_input
    intent_pc,       \* idle, loop, returned
    intents,         \* the argument: the items of the dict, in iteration order
    chat_history_str,
    intent_i,        \* how many items the for loop has taken
    count,
    idx2intents_mapping,
    definition_str,
    exemplars_str,
    intents_choice,
    intent_result,   \* <<>> or <<the returned pair>>
    \* ---- ModelService.process_slot_response
    slot_pc,         \* idle, parse, loop, returned, raised
    response,        \* the argument response
    slots_arg,       \* the slots as they were when passed
    slots,           \* the slots, which the loop updates in place
    extracted_values,
    slot_i,          \* how many slots the for loop has taken
    slot_result      \* what the call did

loader_vars == <<pc, mistral_key, url_objects, docs, crawl_i, fetch_log, driver_acquired,
                 driver_quit, result, entry, local_objs, extract_log, doc_objs,
                 chunk_docs, langchain_docs>>
explore_vars == <<explore_pc, base_arg, base_url, max_num, web, urls_visited,
                  urls_to_visit, fetched, explore_result, prev_result>>
rank_vars == <<rank_pc, rank_urls, top_k, pr, rank_result>>
pipeline_vars == <<loader_vars, explore_vars, rank_vars>>
log_vars == <<loggers, contexts, parent_read>>
handle_vars == <<handle_pc, handle_cfg, handle_out, handle_result, handle_logged>>
retry_vars == <<retry_pc, retry_cfg, attempt_number, invocations, retry_warnings,
                retry_result>>
intent_vars == <<intent_pc, intents, chat_history_str, intent_i, count,
                 idx2intents_mapping, definition_str, exemplars_str, intents_choice,
                 intent_result>>
slot_vars == <<slot_pc, response, slots_arg, slots, extracted_values, slot_i, slot_result>>
nlu_vars == <<intent_vars, slot_vars>>
service_vars == <<log_vars, handle_vars, retry_vars, nlu_vars>>
vars == <<pipeline_vars, service_vars>>

(***************************************************************************)
(* Bounds of the model.                                                    *)
(***************************************************************************)
MaxUrls == 2
MaxTexts == 1
MaxFiles == 2
MaxNum == 3
MaxTopK == 3
MaxRecords == 3
MaxContexts == 3
MaxAttempts == 3
MaxIntents == 2
MaxVariants == 2
MaxSlots == 2

(***************************************************************************)
(* Python values.                                                          *)
(***************************************************************************)
None == <<>>
Some(v) == <<v>>
IsNone(o) == o = <<>>
Value(o) == o[1]

Min(a, b) == IF a <= b THEN a ELSE b
Range(s) == {s[i] : i \in 1..Len(s)}

\* ord(c) for the characters the model uses.
CodePoint(c) ==
    CASE c = "\n" -> 10 [] c = " " -> 32 [] c = "#" -> 35 [] c = "." -> 46
      [] c = "/" -> 47 [] c = "0" -> 48 [] c = "1" -> 49 [] c = "2" -> 50
      [] c = "3" -> 51 [] c = "4" -> 52 [] c = "5" -> 53 [] c = "6" -> 54
      [] c = "7" -> 55 [] c = "8" -> 56 [] c = "9" -> 57 [] c = "T" -> 84
      [] c = "_" -> 95 [] c = "a" -> 97 [] c = "b" -> 98 [] c = "c" -> 99
      [] c = "d" -> 100 [] c = "e" -> 101 [] c = "f" -> 102 [] c = "i" -> 105
      [] c = "p" -> 112 [] c = "s" -> 115 [] c = "t" -> 116 [] c = "u" -> 117
      [] c = "x" -> 120 [] c = "z" -> 122 [] c = "[" -> 91 [] c = "g" -> 103
      [] c = "j" -> 106 [] c = "l" -> 108 [] c = "n" -> 110 [] c = "o" -> 111
      [] OTHER -> 200

\* str.startswith, str.endswith, the in operator on strings, str <.
StartsWith(s, p) == Len(p) <= Len(s) /\ SubSeq(s, 1, Len(p)) = p
EndsWith(s, p) == Len(p) <= Len(s) /\ SubSeq(s, Len(s) - Len(p) + 1, Len(s)) = p
Contains(s, p) == \E i \in 0..(Len(s) - Len(p)) : SubSeq(s, i + 1, i + Len(p)) = p

StrLess(s, t) ==
    \E i \in 1..(Len(t)) :
        /\ i <= Len(s) + 1
        /\ SubSeq(s, 1, i - 1) = SubSeq(t, 1, i - 1)
        /\ \/ i = Len(s) + 1
           \/ i <= Len(s) /\ CodePoint(s[i]) < CodePoint(t[i])

\* str.split("#")[0]
RECURSIVE BeforeHash(_)
BeforeHash(s) ==
    IF s = <<>> \/ Head(s) = "#" THEN <<>> ELSE <<Head(s)>> \o BeforeHash(Tail(s))

\* str.rstrip("/")
RECURSIVE RStripSlash(_)
RStripSlash(s) ==
    IF s # <<>> /\ s[Len(s)] = "/" THEN RStripSlash(SubSeq(s, 1, Len(s) - 1)) ELSE s

\* not s.strip(): s holds only whitespace
IsBlank(s) == \A i \in 1..Len(s) : s[i] \in {" ", "\n"}

\* sep.join(parts)
RECURSIVE Join(_, _)
Join(sep, parts) ==
    IF parts = <<>> THEN <<>>
    ELSE IF Len(parts) = 1 THEN parts[1]
    ELSE parts[1] \o sep \o Join(sep, Tail(parts))

\* str(i) for i >= 0
Digits == <<"0", "1", "2", "3", "4", "5", "6", "7", "8", "9">>
RECURSIVE IntToStr(_)
IntToStr(n) ==
    IF n < 10 THEN <<Digits[n + 1]>> ELSE IntToStr(n \div 10) \o <<Digits[(n % 10) + 1]>>

\* sorted(l) for a list of strings
RECURSIVE Insert(_, _)
Insert(x, l) ==
    IF l = <<>> THEN <<x>>
    ELSE IF StrLess(x, Head(l)) THEN <<x>> \o l
    ELSE <<Head(l)>> \o Insert(x, Tail(l))
RECURSIVE Sorted(_)
Sorted(l) == IF l = <<>> THEN <<>> ELSE Insert(Head(l), Sorted(Tail(l)))

\* every list that holds each element of the finite set S exactly once: the
\* orders list(set(...)) can produce
RECURSIVE Perms(_)
Perms(S) ==
    IF S = {} THEN {<<>>}
    ELSE UNION {{<<x>> \o p : p \in Perms(S \ {x})} : x \in S}

\* all lists over S of length 0..n
RECURSIVE SeqsUpTo(_, _)
SeqsUpTo(S, n) ==
    IF n = 0 THEN {<<>>}
    ELSE LET shorter == SeqsUpTo(S, n - 1)
         IN shorter \cup {Append(l, x) : l \in {m \in shorter : Len(m) = n - 1}, x \in S}

(***************************************************************************)
(* DocObject, CrawledObject, SourceType.                                   *)
(***************************************************************************)
WEB == 1
FILE == 2
TEXT == 3

DocObject(id, source) == [id |-> id, source |-> source]

\* CrawledObject.__init__ with its defaults; metadata is a dict, here the set
\* of its (key, value) pairs.
CrawledObject(id, source, content, metadata, is_chunk, is_error, msg, stype) ==
    [id |-> id, source |-> source, content |-> content, metadata |-> metadata,
     is_chunk |-> is_chunk, is_error |-> is_error, error_message |-> msg,
     source_type |-> stype]

Keys(metadata) == {kv[1] : kv \in metadata}

\* str(uuid.uuid4()): a fresh identifier per position of the batch
Uuid(i) == <<"u">> \o IntToStr(i)

(***************************************************************************)
(* Loader.crawl_urls (loader.py 134-215).                                  *)
(***************************************************************************)
\* The locators a caller passes.
U_s == <<"s">>
U_a == <<"s", "/", "a">>
U_t == <<"t">>
CrawlSources == {U_s, U_a}

\* soup.strings of a rendered page: each string with whether it lies inside an
\* <a> element and, if so, urljoin(url_obj.source, href) of that element; and
\* the texts of the page's <title> elements.
Str(s, in_a, href) == [s |-> s, in_a |-> in_a, href |-> href]
PageLinked == [strings |-> <<Str(<<"x">>, FALSE, <<>>), Str(<<" ">>, FALSE, <<>>),
                             Str(<<"a">>, TRUE, U_a)>>,
               titles |-> <<<<"T">>, <<"x">>>>]
PageOffsite == [strings |-> <<Str(<<"b">>, TRUE, U_t)>>, titles |-> <<>>]
PageEmpty == [strings |-> <<>>, titles |-> <<>>]
CrawlPages == {PageLinked, PageOffsite, PageEmpty}

\* str(err) of the exception a fetch or a parse raises
ErrMsgs == {<<>>, <<"e">>}

\* What the browser and the parser do for one locator.
NoPage == PageEmpty
FetchOutcomes ==
    {[kind |-> "ok", page |-> p, msg |-> <<>>] : p \in CrawlPages}
    \cup {[kind |-> k, page |-> NoPage, msg |-> m] :
            k \in {"get_raises", "parse_raises"}, m \in ErrMsgs}

\* lines 172-183: text_list and text_output
RECURSIVE TextList(_, _)
TextList(source, strings) ==
    IF strings = <<>> THEN <<>>
    ELSE LET st == Head(strings)
             rest == TextList(source, Tail(strings))
         IN IF st.in_a
            THEN IF StartsWith(st.href, source)
                 THEN <<st.s \o <<" ">> \o st.href>> \o rest
                 ELSE rest
            ELSE IF ~IsBlank(st.s) THEN <<st.s>> \o rest ELSE rest

TextOutput(source, page) == Join(<<"\n">>, TextList(source, page.strings))

\* lines 185-188: the first <title>, else the source
Title(fallback, page) == IF page.titles = <<>> THEN fallback ELSE page.titles[1]

\* lines 190-198
CrawlSuccess(url_obj, page) ==
    CrawledObject(url_obj.id, url_obj.source, Some(TextOutput(url_obj.source, page)),
                  {<<"title", Title(url_obj.source, page)>>, <<"source", url_obj.source>>},
                  FALSE, FALSE, None, WEB)

\* an except branch that drops the caught message
CrawlFailure_NoMessage(url_obj, err) ==
    CrawledObject(url_obj.id, url_obj.source, None,
                  {<<"title", url_obj.source>>, <<"source", url_obj.source>>},
                  FALSE, TRUE, None, WEB)

\* lines 200-213
CrawlFailure(url_obj, err) ==
    CrawledObject(url_obj.id, url_obj.source, None,
                  {<<"title", url_obj.source>>, <<"source", url_obj.source>>},
                  FALSE, TRUE, Some(err), WEB)

\* a loop body whose except branch appends nothing
LoopBody_SkipFailed(ds, url_obj, out) ==
    IF out.kind = "ok" THEN Append(ds, CrawlSuccess(url_obj, out.page)) ELSE ds

\* the body of the for loop, lines 165-213: docs after the iteration
LoopBody(ds, url_obj, out) ==
    IF out.kind = "ok" THEN Append(ds, CrawlSuccess(url_obj, out.page))
    ELSE Append(ds, CrawlFailure(url_obj, out.msg))

\* to_crawled_url_objs line 130, or a caller's own DocObjects with distinct ids
UrlObjs(url_list) == [i \in 1..Len(url_list) |-> DocObject(Uuid(i), url_list[i])]

\* lines 147-163: the driver starts
CrawlStart(url_list) ==
    /\ pc = "idle"
    /\ url_objects' = UrlObjs(url_list)
    /\ driver_acquired' = driver_acquired + 1
    /\ docs' = <<>>
    /\ crawl_i' = 0
    /\ fetch_log' = <<>>
    /\ pc' = "crawling"
    /\ entry' = "crawl_urls"
    /\ UNCHANGED <<mistral_key, driver_quit, result, local_objs, extract_log, doc_objs,
                   chunk_docs, langchain_docs>>

\* lines 156-161: ChromeDriverManager().install() or webdriver.Chrome raises
CrawlStartRaises(url_list) ==
    /\ pc = "idle"
    /\ url_objects' = UrlObjs(url_list)
    /\ pc' = "raised"
    /\ entry' = "crawl_urls"
    /\ UNCHANGED <<mistral_key, docs, crawl_i, fetch_log, driver_acquired, driver_quit,
                   result, local_objs, extract_log, doc_objs,
                   chunk_docs, langchain_docs>>

\* one iteration of the loop at line 164
CrawlItem(out) ==
    /\ pc = "crawling"
    /\ crawl_i < Len(url_objects)
    /\ crawl_i' = crawl_i + 1
    /\ docs' = LoopBody(docs, url_objects[crawl_i + 1], out)
    /\ fetch_log' = Append(fetch_log, out)
    /\ UNCHANGED <<pc, mistral_key, url_objects, driver_acquired, driver_quit, result,
                   entry, local_objs, extract_log, doc_objs,
                   chunk_docs, langchain_docs>>

\* a return that leaves the browser running
CrawlReturn_NoQuit ==
    /\ pc = "crawling"
    /\ crawl_i = Len(url_objects)
    /\ result' = docs
    /\ pc' = "returned"
    /\ UNCHANGED <<mistral_key, url_objects, docs, crawl_i, fetch_log, driver_acquired,
                   driver_quit, entry, local_objs, extract_log, doc_objs,
                   chunk_docs, langchain_docs>>

\* lines 214-215
CrawlReturn ==
    /\ pc = "crawling"
    /\ crawl_i = Len(url_objects)
    /\ driver_quit' = driver_quit + 1
    /\ result' = docs
    /\ pc' = "returned"
    /\ UNCHANGED <<mistral_key, url_objects, docs, crawl_i, fetch_log, driver_acquired,
                   entry, local_objs, extract_log, doc_objs,
                   chunk_docs, langchain_docs>>

(***************************************************************************)
(* Loader.to_crawled_text (loader.py 358-380).                             *)
(***************************************************************************)
SourceText == <<"t", "e", "x", "t">>
Texts == {<<>>, <<"a", "b">>, <<"a", "b", "c", "d", "e">>}

TextRecord(i, text) ==
    CrawledObject(Uuid(i), SourceText, Some(text), {}, FALSE, FALSE, None, TEXT)

ToCrawledText(text_list) ==
    /\ pc = "idle"
    /\ result' = [i \in 1..Len(text_list) |-> TextRecord(i, text_list[i])]
    /\ pc' = "returned"
    /\ entry' = "to_crawled_text"
    /\ UNCHANGED <<mistral_key, url_objects, docs, crawl_i, fetch_log, driver_acquired,
                   driver_quit, local_objs, extract_log, doc_objs,
                   chunk_docs, langchain_docs>>

(***************************************************************************)
(* Loader.to_crawled_local_objs and Loader.crawl_file (loader.py 382-536). *)
(* A file extension is one atom of the path.                               *)
(***************************************************************************)
FilePaths ==
    {<<"f">>, <<"d", "/", "f", ".", "pdf">>, <<"f", ".", "png">>, <<"f", ".", "ppt">>,
     <<"f", ".", "html">>, <<"f", ".", "txt">>, <<"f", ".", "zip">>, <<"d", ".", "x", "/", "f">>,
     <<"f", ".", "jpg">>, <<"f", ".", "jpeg">>, <<"f", ".", "pptx">>}

\* Path(source).name
RECURSIVE PathName(_)
PathName(path) ==
    IF \E i \in 1..Len(path) : path[i] = "/"
    THEN PathName(Tail(path))
    ELSE path

\* Path(source).suffix: from the last dot of the name, unless the name starts
\* or ends with it
LastDot(name) ==
    IF \E i \in 1..Len(name) : name[i] = "."
    THEN CHOOSE i \in 1..Len(name) :
            name[i] = "." /\ \A j \in (i + 1)..Len(name) : name[j] # "."
    ELSE 0
PathSuffix(path) ==
    LET name == PathName(path)
        i == LastDot(name)
    IN IF 1 < i /\ i < Len(name) THEN SubSeq(name, i, Len(name)) ELSE <<>>

\* str.lstrip(".")
RECURSIVE LStripDot(_)
LStripDot(s) == IF s # <<>> /\ Head(s) = "." THEN LStripDot(Tail(s)) ELSE s

FileType(path) == LStripDot(PathSuffix(path))

\* lines 420-423
OcrTypes == {<<"pdf">>, <<"png">>, <<"jpg">>, <<"jpeg">>, <<"pptx">>, <<"ppt">>}
OcrConfigured == mistral_key = "set"
\* lines 492-507
LoaderTypes == {<<"pdf">>, <<"doc">>, <<"docx">>, <<"xlsx">>, <<"xls">>, <<"txt">>,
                <<"md">>, <<"pptx">>, <<"ppt">>}

MsgNoFileType(path) == <<"No file type detected for file: ">> \o path
MsgUnsupported == <<"Unsupported file type.">>

\* What the extractor called for one file does: the texts of the pages it
\* returns, the parsed page of an html file, or the str() of what it raises.
ExtractOutcomes ==
    {[kind |-> "ok", pages |-> <<>>, page |-> PageEmpty, msg |-> <<>>],
     [kind |-> "ok", pages |-> <<<<"a">>, <<"b">>>>, page |-> PageLinked, msg |-> <<>>],
     [kind |-> "raises", pages |-> <<>>, page |-> NoPage, msg |-> <<"e">>]}

RECURSIVE Concat(_)
Concat(parts) == IF parts = <<>> THEN <<>> ELSE Head(parts) \o Concat(Tail(parts))

\* lines 470-478: every string inside an <a> is kept, with the raw href
RECURSIVE FileTextList(_)
FileTextList(strings) ==
    IF strings = <<>> THEN <<>>
    ELSE LET st == Head(strings)
             rest == FileTextList(Tail(strings))
         IN IF st.in_a THEN <<st.s \o <<" ">> \o st.href>> \o rest
            ELSE IF ~IsBlank(st.s) THEN <<st.s>> \o rest ELSE rest

FileSuccess(local_obj, title, doc_text) ==
    CrawledObject(local_obj.id, local_obj.source, Some(doc_text),
                  {<<"title", title>>, <<"source", local_obj.source>>},
                  FALSE, FALSE, None, FILE)

\* an except branch that stores an empty text instead of no content
FileFailure_EmptyContent(local_obj, err) ==
    CrawledObject(local_obj.id, local_obj.source, Some(<<>>),
                  {<<"title", PathName(local_obj.source)>>},
                  FALSE, TRUE, Some(err), FILE)

\* lines 526-536
FileFailure(local_obj, err) ==
    CrawledObject(local_obj.id, local_obj.source, None,
                  {<<"title", PathName(local_obj.source)>>},
                  FALSE, TRUE, Some(err), FILE)

\* a dispatch that sends the OCR file types to OCR whatever the key is
Dispatch_IgnoreKey(file_type) ==
    IF file_type = <<>> THEN "no_type"
    ELSE IF file_type \in OcrTypes THEN "ocr"
    ELSE IF file_type = <<"html">> THEN "html"
    ELSE IF file_type \in LoaderTypes THEN "loader"
    ELSE "unsupported"

\* which branch of lines 416-510 handles the file
Dispatch(file_type) ==
    IF file_type = <<>> THEN "no_type"
    ELSE IF file_type \in OcrTypes /\ OcrConfigured THEN "ocr"
    ELSE IF file_type = <<"html">> THEN "html"
    ELSE IF file_type \in LoaderTypes THEN "loader"
    ELSE "unsupported"

\* lines 492-507: the langchain loader of a file type
LoaderFor(file_type) ==
    CASE file_type = <<"pdf">> -> "PyPDFLoader"
      [] file_type \in {<<"doc">>, <<"docx">>} -> "UnstructuredWordDocumentLoader"
      [] file_type \in {<<"xlsx">>, <<"xls">>} -> "UnstructuredExcelLoader"
      [] file_type = <<"txt">> -> "TextLoader"
      [] file_type = <<"md">> -> "UnstructuredMarkdownLoader"
      [] file_type \in {<<"pptx">>, <<"ppt">>} -> "UnstructuredPowerPointLoader"

\* the extractor lines 416-510 call for a file type, "none" when they raise
\* before calling any
Extractor(file_type) ==
    LET branch == Dispatch(file_type)
    IN CASE branch \in {"no_type", "unsupported"} -> "none"
         [] branch = "ocr" -> "Mistral"
         [] branch = "html" -> "BeautifulSoup"
         [] OTHER -> LoaderFor(file_type)

\* a crawl_file that takes a path without extension for a text file
CrawlFile_NoTypeCheck(local_obj, out) ==
    IF out.kind = "raises" THEN FileFailure(local_obj, out.msg)
    ELSE FileSuccess(local_obj, PathName(local_obj.source), Join(<<"\n">>, out.pages))

CrawlFile(local_obj, out) ==
    LET file_name == PathName(local_obj.source)
        branch == Dispatch(FileType(local_obj.source))
    IN CASE branch = "no_type" -> FileFailure(local_obj, MsgNoFileType(local_obj.source))
         [] branch = "unsupported" -> FileFailure(local_obj, MsgUnsupported)
         [] out.kind = "raises" -> FileFailure(local_obj, out.msg)
         [] branch = "ocr" -> FileSuccess(local_obj, file_name, Concat(out.pages))
         [] branch = "html" ->
                FileSuccess(local_obj, Title(file_name, out.page),
                            Join(<<"\n">>, FileTextList(out.page.strings)))
         [] OTHER -> FileSuccess(local_obj, file_name, Join(<<"\n">>, out.pages))

\* lines 394-396, one list comprehension over the files
ToCrawledLocalObjs(file_list, outs) ==
    /\ pc = "idle"
    /\ Len(outs) = Len(file_list)
    /\ local_objs' = [i \in 1..Len(file_list) |-> DocObject(Uuid(i), file_list[i])]
    /\ extract_log' = [i \in 1..Len(file_list) |->
                         LET extractor == Extractor(FileType(file_list[i]))
                         IN [extractor |-> extractor,
                             kind |-> IF extractor = "none" THEN "not_called"
                                      ELSE outs[i].kind]]
    /\ result' = [i \in 1..Len(file_list) |->
                    CrawlFile(DocObject(Uuid(i), file_list[i]), outs[i])]
    /\ pc' = "returned"
    /\ entry' = "to_crawled_local_objs"
    /\ UNCHANGED <<mistral_key, url_objects, docs, crawl_i, fetch_log, driver_acquired,
                   driver_quit, doc_objs, chunk_docs, langchain_docs>>

(***************************************************************************)
(* Loader.chunk (loader.py 552-596).  The splitter is langchain's; here a  *)
(* token is a character and a text is cut into windows of ChunkSize tokens *)
(* that overlap by ChunkOverlap.                                           *)
(***************************************************************************)
ChunkSize == 3
ChunkOverlap == 1

RECURSIVE Windows(_, _)
Windows(text, start) ==
    IF start > Len(text) THEN <<>>
    ELSE IF start + ChunkSize - 1 >= Len(text) THEN <<SubSeq(text, start, Len(text))>>
    ELSE <<SubSeq(text, start, start + ChunkSize - 1)>>
         \o Windows(text, start + ChunkSize - ChunkOverlap)

\* text_splitter.split_text(content)
SplitText(text) == Windows(text, 1)

\* lines 584-591
ChunkRecord_OneBased(doc_obj, i, txt) ==
    CrawledObject(doc_obj.id \o <<"_">> \o IntToStr(i + 1), doc_obj.source, Some(txt),
                  doc_obj.metadata, TRUE, FALSE, None, doc_obj.source_type)

ChunkRecord(doc_obj, i, txt) ==
    CrawledObject(doc_obj.id \o <<"_">> \o IntToStr(i), doc_obj.source, Some(txt),
                  doc_obj.metadata, TRUE, FALSE, None, doc_obj.source_type)

\* lines 593-595
Document(doc_obj, txt) ==
    [page_content |-> txt, metadata |-> {<<"source", doc_obj.source>>}]

\* lines 570-595: the loop body for one doc_obj, on the pair
\* (docs, langchain_docs)
ChunkStep_KeepErrors(acc, doc_obj) ==
    IF doc_obj.is_chunk THEN [acc EXCEPT !.docs = Append(@, doc_obj)]
    ELSE LET splitted_text == IF IsNone(doc_obj.content) THEN <<<<>>>>
                              ELSE SplitText(Value(doc_obj.content))
             n == Len(splitted_text)
         IN [docs |-> acc.docs
                      \o [i \in 1..n |-> ChunkRecord(doc_obj, i - 1, splitted_text[i])],
             langchain_docs |-> acc.langchain_docs
                      \o [i \in 1..n |-> Document(doc_obj, splitted_text[i])]]

ChunkStep(acc, doc_obj) ==
    IF doc_obj.is_error \/ IsNone(doc_obj.content) THEN acc
    ELSE IF doc_obj.is_chunk THEN [acc EXCEPT !.docs = Append(@, doc_obj)]
    ELSE LET splitted_text == SplitText(Value(doc_obj.content))
             n == Len(splitted_text)
         IN [docs |-> acc.docs
                      \o [i \in 1..n |-> ChunkRecord(doc_obj, i - 1, splitted_text[i])],
             langchain_docs |-> acc.langchain_docs
                      \o [i \in 1..n |-> Document(doc_obj, splitted_text[i])]]

\* lines 568-596: the pair (docs, langchain_docs) after the loop
RECURSIVE ChunkLoop(_, _)
ChunkLoop(rest, acc) ==
    IF rest = <<>> THEN acc ELSE ChunkLoop(Tail(rest), ChunkStep(acc, Head(rest)))

\* chunk(arg): the whole call
ChunkCall(arg) ==
    LET out == ChunkLoop(arg, [docs |-> <<>>, langchain_docs |-> <<>>])
    IN /\ doc_objs' = arg
       /\ chunk_docs' = out.docs
       /\ langchain_docs' = out.langchain_docs

\* chunk on the records an entry point returned
Chunk ==
    /\ pc = "returned"
    /\ ChunkCall(result)
    /\ pc' = "chunked"
    /\ UNCHANGED <<mistral_key, url_objects, docs, crawl_i, fetch_log, driver_acquired,
                   driver_quit, result, entry, local_objs, extract_log>>

\* chunk on records that are chunks already: the chunk records of the call
\* before, as a caller that kept them (Loader.save, line 538) passes them
Rechunk ==
    /\ pc = "chunked"
    /\ ChunkCall(chunk_docs)
    /\ pc' = "rechunked"
    /\ UNCHANGED <<mistral_key, url_objects, docs, crawl_i, fetch_log, driver_acquired,
                   driver_quit, result, entry, local_objs, extract_log>>

(***************************************************************************)
(* Loader.get_all_urls, get_outsource_urls, _check_url (loader.py 217-310).*)
(***************************************************************************)
\* line 302
kw_list ==
    <<<<".", "p", "d", "f">>, <<".", "j", "p", "g">>, <<".", "p", "n", "g">>,
      <<".", "d", "o", "c", "x">>, <<".", "x", "l", "s", "x">>,
      <<".", "p", "p", "t", "x">>, <<".", "z", "i", "p">>, <<".", "j", "p", "e", "g">>>>

\* lines 303-310; a non-empty str is true
_check_url(full_url, base) ==
    /\ StartsWith(full_url, base)
    /\ full_url # <<>>
    /\ ~\E k \in 1..Len(kw_list) : Contains(full_url, kw_list[k])
    /\ full_url # base

\* lines 234 and 274
Normalize(url) == RStripSlash(BeforeHash(url))

\* The site.  A page's links are the values urljoin(curr_url, href) of its <a>
\* elements, or BadHref for an href on which urljoin raises.
P_s == <<"s">>
P_a == <<"s", "/", "a">>
P_b == <<"s", "/", "b">>
P_c == <<"s", "/", "c">>
P_zip == <<"s", ".", "z", "i", "p">>
SitePages == {P_s, P_a, P_b, P_c, P_zip}

BadHref == <<"[">>
L_a_slash == <<"s", "/", "a", "/">>
L_b_frag == <<"s", "/", "b", "#", "f">>
L_offsite == <<"t", "/", "a">>
L_base_slash == <<"s", "/">>
L_c_zip == <<"s", "/", "c", ".", "z", "i", "p">>
L_zip_mid == <<"s", "/", "c", ".", "z", "i", "p", "/", "d">>
L_zip_sub == <<"s", ".", "z", "i", "p", "/", "a">>

LinkSets ==
    {{}, {L_a_slash, L_b_frag, L_offsite}, {P_c, L_c_zip, L_base_slash, BadHref},
     {P_a, L_zip_mid}}
PageChoices ==
    {[status |-> "ok", links |-> ls] : ls \in LinkSets}
    \cup {[status |-> st, links |-> {L_a_slash, L_b_frag, L_offsite}] :
            st \in {"non200", "raises"}}
ZipPage == [status |-> "ok", links |-> {L_zip_sub, P_a}]
Webs ==
    {[p \in SitePages |-> IF p = P_zip THEN ZipPage ELSE w[p]] :
        w \in [SitePages \ {P_zip} -> PageChoices]}

Bases == {P_s, <<"s", "/", "#", "f">>, P_zip}

\* a link extraction that parses the body whatever the response was
GetOutsourceUrls_IgnoreStatus(curr_url, base) ==
    {Normalize(l) : l \in {h \in web[curr_url].links \ {BadHref} :
                                _check_url(Normalize(h), base)}}

\* lines 262-287: the set of the returned list (its order is that of a set)
GetOutsourceUrls(curr_url, base) ==
    IF web[curr_url].status = "ok"
    THEN {Normalize(l) : l \in {h \in web[curr_url].links \ {BadHref} :
                                    _check_url(Normalize(h), base)}}
    ELSE {}

\* a return without the final sort
Returned_Unsorted(visited, n) == SubSeq(visited, 1, Min(n, Len(visited)))

\* line 247
Returned(visited, n) == Sorted(SubSeq(visited, 1, Min(n, Len(visited))))

\* an iteration that visits without the ceiling check of lines 238-239
ExploreVisit_NoCeiling ==
    /\ explore_pc = "loop"
    /\ urls_to_visit # <<>>
    /\ LET current_url == Head(urls_to_visit)
       IN /\ current_url \notin Range(urls_visited)
          /\ urls_visited' = Append(urls_visited, current_url)
          /\ fetched' = Append(fetched, current_url)
          /\ \E queued \in {Range(Tail(urls_to_visit))
                              \cup GetOutsourceUrls(current_url, base_url)} :
                \E q \in Perms(queued) : urls_to_visit' = q
    /\ UNCHANGED <<explore_pc, base_arg, base_url, max_num, web, explore_result,
                   prev_result>>

\* an iteration that visits current_url whether or not it was visited before
ExploreVisit_Revisit ==
    /\ explore_pc = "loop"
    /\ urls_to_visit # <<>>
    /\ Len(urls_visited) < max_num
    /\ LET current_url == Head(urls_to_visit)
       IN /\ urls_visited' = Append(urls_visited, current_url)
          /\ fetched' = Append(fetched, current_url)
          /\ \E queued \in {Range(Tail(urls_to_visit))
                              \cup GetOutsourceUrls(current_url, base_url)} :
                \E q \in Perms(queued) : urls_to_visit' = q
    /\ UNCHANGED <<explore_pc, base_arg, base_url, max_num, web, explore_result,
                   prev_result>>

\* an iteration that replaces the queue by the new links
ExploreVisit_ForgetQueue ==
    /\ explore_pc = "loop"
    /\ urls_to_visit # <<>>
    /\ Len(urls_visited) < max_num
    /\ LET current_url == Head(urls_to_visit)
       IN /\ current_url \notin Range(urls_visited)
          /\ urls_visited' = Append(urls_visited, current_url)
          /\ fetched' = Append(fetched, current_url)
          /\ \E q \in Perms(GetOutsourceUrls(current_url, base_url)) :
                urls_to_visit' = q
    /\ UNCHANGED <<explore_pc, base_arg, base_url, max_num, web, explore_result,
                   prev_result>>

\* lines 237-245, an iteration that visits current_url; list(set(...)) at line
\* 245 leaves the queue in any order
ExploreVisit ==
    /\ explore_pc = "loop"
    /\ urls_to_visit # <<>>
    /\ Len(urls_visited) < max_num
    /\ LET current_url == Head(urls_to_visit)
       IN /\ current_url \notin Range(urls_visited)
          /\ urls_visited' = Append(urls_visited, current_url)
          /\ fetched' = Append(fetched, current_url)
          /\ \E queued \in {Range(Tail(urls_to_visit))
                              \cup GetOutsourceUrls(current_url, base_url)} :
                \E q \in Perms(queued) : urls_to_visit' = q
    /\ UNCHANGED <<explore_pc, base_arg, base_url, max_num, web, explore_result,
                   prev_result>>

\* an iteration that leaves a visited current_url at the head of the queue
ExploreSkip_NoPop ==
    /\ explore_pc = "loop"
    /\ urls_to_visit # <<>>
    /\ Len(urls_visited) < max_num
    /\ Head(urls_to_visit) \in Range(urls_visited)
    /\ UNCHANGED explore_vars

\* lines 240-241, an iteration whose current_url was visited before
ExploreSkip ==
    /\ explore_pc = "loop"
    /\ urls_to_visit # <<>>
    /\ Len(urls_visited) < max_num
    /\ Head(urls_to_visit) \in Range(urls_visited)
    /\ urls_to_visit' = Tail(urls_to_visit)
    /\ UNCHANGED <<explore_pc, base_arg, base_url, max_num, web, urls_visited, fetched,
                   explore_result, prev_result>>

\* lines 237-239 and 246-247
ExploreReturn ==
    /\ explore_pc = "loop"
    /\ urls_to_visit = <<>> \/ Len(urls_visited) >= max_num
    /\ explore_result' = Some(Returned(urls_visited, max_num))
    /\ explore_pc' = "done"
    /\ UNCHANGED <<base_arg, base_url, max_num, web, urls_visited, urls_to_visit,
                   fetched, prev_result>>

\* another execution of get_all_urls with the same arguments on the same site
\* (another interpreter process: the order of a set of str follows the hash
\* seed of the process)
ExploreAgain ==
    /\ explore_pc = "done"
    /\ prev_result = None
    /\ prev_result' = explore_result
    /\ explore_result' = None
    /\ urls_visited' = <<>>
    /\ urls_to_visit' = <<base_url>>
    /\ fetched' = <<>>
    /\ explore_pc' = "loop"
    /\ UNCHANGED <<base_arg, base_url, max_num, web>>

(***************************************************************************)
(* Loader.get_candidates_websites (loader.py 312-356) with networkx's      *)
(* DiGraph and pagerank.  Scores are fixed-point numbers, Scale standing   *)
(* for 1.0.                                                                *)
(***************************************************************************)
\* The records a crawl hands to the ranker: a source with the content crawled
\* for it, or with a failed crawl.
RefA == <<"a", " ">> \o P_a
RefB == <<"b", " ">> \o P_b
RefC == <<"c", " ">> \o P_c
RankKinds ==
    {[source |-> P_a, content |-> Some(RefB)], [source |-> P_a, content |-> Some(RefA)],
     [source |-> P_b, content |-> Some(RefC)], [source |-> P_b, content |-> Some(RefA)],
     [source |-> P_b, content |-> None], [source |-> P_c, content |-> Some(<<>>)],
     [source |-> P_c, content |-> Some(RefA)], [source |-> P_c, content |-> None]}

RankRecord(i, kind) ==
    IF IsNone(kind.content)
    THEN CrawlFailure(DocObject(Uuid(i), kind.source), <<"e">>)
    ELSE CrawledObject(Uuid(i), kind.source, kind.content,
                       {<<"title", kind.source>>, <<"source", kind.source>>},
                       FALSE, FALSE, None, WEB)

\* lines 330-332: the dict's keys in insertion order, and its values
RECURSIVE SourceKeys(_, _)
SourceKeys(urls, seen) ==
    IF urls = <<>> THEN <<>>
    ELSE IF Head(urls).source \in seen THEN SourceKeys(Tail(urls), seen)
    ELSE <<Head(urls).source>> \o SourceKeys(Tail(urls), seen \cup {Head(urls).source})

UrlToId(urls, key) ==
    LET last == CHOOSE i \in 1..Len(urls) :
                    /\ urls[i].source = key
                    /\ \A j \in (i + 1)..Len(urls) : urls[j].source # key
    IN urls[last].id

\* lines 337-340 for one record
RECURSIVE EdgesOf(_, _, _)
EdgesOf(url, urls, keys) ==
    IF keys = <<>> THEN <<>>
    ELSE (IF Contains(Value(url.content), Head(keys))
          THEN <<<<url.id, UrlToId(urls, Head(keys))>>>>
          ELSE <<>>) \o EdgesOf(url, urls, Tail(keys))

\* lines 334-343: the lists edges and nodes
RECURSIVE EdgeList(_, _)
EdgeList(rest, urls) ==
    IF rest = <<>> THEN <<>>
    ELSE IF Head(rest).is_error THEN EdgeList(Tail(rest), urls)
    ELSE EdgesOf(Head(rest), urls, SourceKeys(urls, {})) \o EdgeList(Tail(rest), urls)

RECURSIVE NodeList(_)
NodeList(rest) ==
    IF rest = <<>> THEN <<>>
    ELSE IF Head(rest).is_error THEN NodeList(Tail(rest))
    ELSE <<Head(rest)>> \o NodeList(Tail(rest))

\* DiGraph.add_edges_from: an endpoint that is no node yet becomes a node
\* with no attributes
RECURSIVE AddEdgeNodes(_, _)
AddEdgeNodes(ids, edges) ==
    IF edges = <<>> THEN ids
    ELSE LET u == Head(edges)[1]
             v == Head(edges)[2]
             with_u == IF u \in Range(ids) THEN ids ELSE Append(ids, u)
             with_v == IF v \in Range(with_u) THEN with_u ELSE Append(with_u, v)
         IN AddEdgeNodes(with_v, Tail(edges))

\* lines 345-347: the graph's nodes in insertion order, each node's
\* attributes (None for a node that add_edges_from made), and its edges
Graph(urls) ==
    LET nodes == NodeList(urls)
        edges == EdgeList(urls, urls)
        ids == AddEdgeNodes([i \in 1..Len(nodes) |-> nodes[i].id], edges)
    IN [ids |-> ids,
        data |-> [id \in Range(ids) |->
                    IF \E i \in 1..Len(nodes) : nodes[i].id = id
                    THEN Some(CHOOSE n \in Range(nodes) : n.id = id)
                    ELSE None],
        edges |-> Range(edges)]

\* networkx.pagerank(G, alpha=0.9): max_iter=100, tol=1.0e-6
Scale == 100000000
AlphaNum == 9
AlphaDen == 10
MaxIter == 100
TolDen == 1000000

Out(g, u) == {v \in Range(g.ids) : <<u, v>> \in g.edges}

RECURSIVE SumOver(_, _)
SumOver(S, f) ==
    IF S = {} THEN 0
    ELSE LET u == CHOOSE v \in S : TRUE IN f[u] + SumOver(S \ {u}, f)

Abs(n) == IF n < 0 THEN -n ELSE n

PowerStep(g, x) ==
    LET V == Range(g.ids)
        N == Cardinality(V)
        dangling == SumOver({u \in V : Out(g, u) = {}}, x)
    IN [v \in V |->
          (AlphaNum * (SumOver({u \in V : v \in Out(g, u)},
                               [u \in V |-> IF Out(g, u) = {} THEN 0
                                            ELSE x[u] \div Cardinality(Out(g, u))])
                       + dangling \div N)) \div AlphaDen
          + (((AlphaDen - AlphaNum) * Scale) \div AlphaDen) \div N]

\* one round of the power iteration: the new scores and whether the change
\* is below N * tol
Round(g, x) ==
    LET V == Range(g.ids)
        nx == PowerStep(g, x)
        err == SumOver(V, [u \in V |-> Abs(nx[u] - x[u])])
    IN [converged |-> nx = x \/ err < Cardinality(V) * (Scale \div TolDen), x |-> nx]

\* the next n rounds of the power iteration from x, stopping at the first
\* round that converges (evaluated by halves, which keeps the nesting flat)
RECURSIVE Iterate(_, _, _)
Iterate(g, x, n) ==
    IF n = 1 THEN Round(g, x)
    ELSE LET first == Iterate(g, x, n \div 2)
         IN IF first.converged THEN first ELSE Iterate(g, first.x, n - n \div 2)

\* the scores, or no convergence within MaxIter rounds
\* (PowerIterationFailedConvergence)
PageRank(g) ==
    LET V == Range(g.ids)
    IN IF V = {} THEN [converged |-> TRUE, x |-> <<>>]
       ELSE Iterate(g, [u \in V |-> Scale \div Cardinality(V)], MaxIter)

\* line 350: sorted(pr.items(), key=score, reverse=True), a stable sort
RECURSIVE InsertByScore(_, _, _)
InsertByScore(id, l, x) ==
    IF l = <<>> THEN <<id>>
    ELSE IF x[id] > x[Head(l)] THEN <<id>> \o l
    ELSE <<Head(l)>> \o InsertByScore(id, Tail(l), x)
RECURSIVE SortedPr(_, _)
SortedPr(ids, x) ==
    IF ids = <<>> THEN <<>>
    ELSE InsertByScore(Head(ids), SortedPr(Tail(ids), x), x)

\* lines 353-355: the nodes with attributes among the first top_k
RECURSIVE Cleaned(_, _)
Cleaned(ids, g) ==
    IF ids = <<>> THEN <<>>
    ELSE (IF IsNone(g.data[Head(ids)]) THEN <<>> ELSE <<Value(g.data[Head(ids)])>>)
         \o Cleaned(Tail(ids), g)

TopKWebsites_NoSlice(g, x, k) == SortedPr(g.ids, x)

TopKWebsites(g, x, k) ==
    LET sorted_pr == SortedPr(g.ids, x)
    IN SubSeq(sorted_pr, 1, Min(k, Len(sorted_pr)))

GetCandidatesWebsites ==
    /\ rank_pc = "ready"
    /\ LET g == Graph(rank_urls)
           out == PageRank(g)
       IN IF out.converged
          THEN /\ pr' = out.x
               /\ rank_result' = Cleaned(TopKWebsites(g, out.x, top_k), g)
               /\ rank_pc' = "returned"
          ELSE /\ pr' = <<>>
               /\ rank_result' = <<>>
               /\ rank_pc' = "raised"
    /\ UNCHANGED <<rank_urls, top_k>>

(***************************************************************************)
(* arklex/utils/logging_utils.py: LogContext.  logging.getLogger(name)     *)
(* returns the one Logger registered under name, so every LogContext of a  *)
(* name shares its logger, its level and its list of handlers.             *)
(***************************************************************************)
\* getattr(logging, level) for the name of a level
LevelOf(level) ==
    CASE level = "NOTSET" -> 0 [] level = "DEBUG" -> 10 [] level = "INFO" -> 20
      [] level = "WARNING" -> 30 [] level = "ERROR" -> 40 [] level = "CRITICAL" -> 50

\* logging.getLevelName(n) for the number of a level
getLevelName(n) ==
    CASE n = 0 -> "NOTSET" [] n = 10 -> "DEBUG" [] n = 20 -> "INFO"
      [] n = 30 -> "WARNING" [] n = 40 -> "ERROR" [] n = 50 -> "CRITICAL"

\* the logger names and level arguments the callers pass
N_p == <<"p">>
N_q == <<"q">>
N_pc == <<"p", ".", "c">>
N_pcd == <<"p", ".", "c", ".", "d">>
RootName == <<"r", "o", "o", "t">>
LoggerNames == {N_p, N_q, N_pc, N_pcd}
LevelArgs == {"DEBUG", "INFO", "ERROR"}

\* a Logger as logging.getLogger creates it, and the root logger
NewLogger == [level |-> LevelOf("NOTSET"), propagate |-> TRUE, handlers |-> <<>>]
RootLogger == [level |-> LevelOf("WARNING"), propagate |-> TRUE, handlers |-> <<>>]

\* logging.getLogger(name) on the registry lg: name -> Logger
getLogger(lg, name) == IF name \in DOMAIN lg THEN lg ELSE (name :> NewLogger) @@ lg

\* Logger.parent: the nearest registered ancestor by dotted prefix, else the
\* root logger; the root logger has no parent
DotPrefixes(name) == {SubSeq(name, 1, i - 1) : i \in {k \in 2..Len(name) : name[k] = "."}}
Logger_parent(lg, name) ==
    IF name = RootName THEN None
    ELSE LET anc == DotPrefixes(name) \cap DOMAIN lg
         IN IF anc = {} THEN Some(RootName)
            ELSE Some(CHOOSE a \in anc : \A b \in anc : Len(b) <= Len(a))

\* lines 147-154 with log_format None
_get_console_handler ==
    [class |-> "StreamHandler", formatter |-> "%(levelname)s - %(message)s",
     filters |-> <<>>]
addFilter(handler, f) == [handler EXCEPT !.filters = Append(@, f)]

\* a constructor that sets the requested level on dotted names too
LogContextInit_LevelForAll(lg, name, level) ==
    LET handler == addFilter(addFilter(_get_console_handler, "RequestIdFilter"),
                             "ContextFilter")
    IN [getLogger(lg, name) EXCEPT
           ![name] = [level |-> LevelOf(level), propagate |-> TRUE,
                      handlers |-> Append(@.handlers, handler)]]

\* LogContext.__init__, lines 98-108, on the registry lg
LogContextInit(lg, name, level) ==
    LET handler == addFilter(addFilter(_get_console_handler, "RequestIdFilter"),
                             "ContextFilter")
    IN [getLogger(lg, name) EXCEPT
           ![name] = [level |-> IF Contains(name, <<".">>) THEN LevelOf("NOTSET")
                                ELSE LevelOf(level),
                      propagate |-> TRUE,
                      handlers |-> Append(@.handlers, handler)]]

\* the properties of a LogContext, lines 118-132
LogContext_name(self) == self.logger
LogContext_level(self) == loggers[self.logger].level
LogContext_handlers(self) == loggers[self.logger].handlers
LogContext_propagate(self) == loggers[self.logger].propagate

\* LogContext(name, level=level)
NewLogContext(name, level) ==
    /\ Len(contexts) < MaxContexts
    /\ loggers' = LogContextInit(loggers, name, level)
    /\ contexts' = Append(contexts, [logger |-> name, level |-> level])
    /\ UNCHANGED parent_read

\* a read of the parent property of the i-th LogContext, lines 138-145: it
\* constructs a LogContext of the parent logger
ReadParent(i) ==
    /\ i \in 1..Len(contexts)
    /\ LET self == contexts[i]
           parent == Logger_parent(loggers, self.logger)
       IN IF IsNone(parent)
          THEN /\ parent_read' = Some([of |-> i, returned |-> None])
               /\ UNCHANGED <<loggers, contexts>>
          ELSE LET parent_level == getLevelName(loggers[Value(parent)].level)
               IN /\ Len(contexts) < MaxContexts
                  /\ loggers' = LogContextInit(loggers, Value(parent), parent_level)
                  /\ contexts' = Append(contexts, [logger |-> Value(parent),
                                                   level |-> parent_level])
                  /\ parent_read' = Some([of |-> i, returned |-> Some(Len(contexts) + 1)])

(***************************************************************************)
(* arklex/utils/logging_utils.py: the decorators handle_exceptions and     *)
(* with_retry.  What one invocation of the wrapped function does is an     *)
(* input: it returns a value or raises an exception.  An exception is a    *)
(* record; id tells one exception object from another.                     *)
(***************************************************************************)
\* the exception classes: RetryableError and AuthenticationError are kinds of
\* ArklexError, RetryError is the class tenacity raises after the last attempt
Superclass(T) ==
    CASE T = "RetryableError" -> "ArklexError"
      [] T = "AuthenticationError" -> "ArklexError"
      [] T = "ArklexError" -> "Exception"
      [] T = "ValueError" -> "Exception"
      [] T = "RetryError" -> "Exception"

RECURSIVE IsSubclass(_, _)
IsSubclass(T, U) == T = U \/ (T # "Exception" /\ IsSubclass(Superclass(T), U))
IsInstance(e, T) == IsSubclass(e.type, T)

Returns(v) == [kind |-> "return", value |-> v]
Raises(e) == [kind |-> "raise", exc |-> e]
\* the exception object the wrapped function raises in its k-th invocation
Raised(T, k) == [type |-> T, id |-> <<"func", k>>, msg |-> <<"boom">>, details |-> {}]
FuncName == <<"f">>
FuncModule == <<"m">>
FuncValues == {None, Some("v")}
FuncRaises == {"ArklexError", "AuthenticationError", "RetryableError", "ValueError",
               "Exception"}
\* what the k-th invocation of the wrapped function may do
FuncOutcomes(k) == {Returns(v) : v \in FuncValues} \cup {Raises(Raised(T, k)) : T \in FuncRaises}

\* lines 258-265 and 289-296: the exception raised in place of e
DefaultError(cfg, e) ==
    [type |-> cfg.default_error, id |-> <<"wrapper", 1>>,
     msg |-> <<"Operation failed in ">> \o FuncName,
     details |-> {<<"original_error", e.msg>>, <<"error_type", <<e.type>>>>,
                  <<"module", FuncModule>>}]

\* lines 243-256 and 274-287: the record handed to logger.log
LogRecordOf(cfg, e) ==
    [level |-> cfg.log_level, function |-> FuncName, error |-> e.msg,
     stack_trace |-> cfg.include_stack_trace]

\* a wrapper that replaces an ArklexError like any other exception
Wrapper_WrapsArklexError(out) ==
    /\ handle_pc = "ready"
    /\ handle_out' = Some(out)
    /\ IF out.kind = "return"
       THEN /\ handle_result' = Some(out)
            /\ handle_pc' = "returned"
            /\ UNCHANGED handle_logged
       ELSE /\ handle_logged' = Append(handle_logged, LogRecordOf(handle_cfg, out.exc))
            /\ IF handle_cfg.reraise
               THEN /\ handle_result' = Some(Raises(DefaultError(handle_cfg, out.exc)))
                    /\ handle_pc' = "raised"
               ELSE /\ handle_result' = Some(Returns(None))
                    /\ handle_pc' = "returned"
    /\ UNCHANGED handle_cfg

\* one call of the wrapper of handle_exceptions, lines 232-266 (async_wrapper)
\* and 268-297 (sync_wrapper): the two bodies differ in the await only
Wrapper(out) ==
    /\ handle_pc = "ready"
    /\ handle_out' = Some(out)
    /\ IF out.kind = "return"
       THEN /\ handle_result' = Some(out)
            /\ handle_pc' = "returned"
            /\ UNCHANGED handle_logged
       ELSE IF IsInstance(out.exc, "ArklexError")
       THEN /\ handle_result' = Some(out)
            /\ handle_pc' = "raised"
            /\ UNCHANGED handle_logged
       ELSE /\ handle_logged' = Append(handle_logged, LogRecordOf(handle_cfg, out.exc))
            /\ IF handle_cfg.reraise
               THEN /\ handle_result' = Some(Raises(DefaultError(handle_cfg, out.exc)))
                    /\ handle_pc' = "raised"
               ELSE /\ handle_result' = Some(Returns(None))
                    /\ handle_pc' = "returned"
    /\ UNCHANGED handle_cfg

\* line 299: asyncio.iscoroutinefunction(func) chooses the wrapper
HandleAsyncWrapper(out) == handle_cfg.is_async /\ Wrapper(out)
HandleSyncWrapper(out) == ~handle_cfg.is_async /\ Wrapper(out)

\* the arguments of handle_exceptions, and whether func is a coroutine function
HandleConfigs ==
    [reraise : BOOLEAN, default_error : {"ArklexError", "AuthenticationError"},
     log_level : {"ERROR", "WARNING"}, include_stack_trace : BOOLEAN, is_async : BOOLEAN]

\* ---- with_retry
\* tenacity.stop_after_attempt(max_attempts) after the attempt numbered n
stop_after_attempt(max_attempts, n) == n >= max_attempts
\* tenacity.retry_if_exception_type(T) on the outcome of an attempt
retry_if_exception_type(T, out) == out.kind = "raise" /\ IsInstance(out.exc, T)
\* retry_on or RetryableError
RetryOn(cfg) == IF IsNone(cfg.retry_on) THEN "RetryableError" ELSE Value(cfg.retry_on)
\* tenacity.RetryError(last_attempt)
RetryError(out) ==
    [type |-> "RetryError", id |-> <<"tenacity", 1>>, msg |-> <<"RetryError">>,
     details |-> {<<"last_attempt", out.exc.id>>}]

\* a retry loop that stops one attempt late
Attempt_StopsLate(out) ==
    /\ retry_pc = "calling"
    /\ attempt_number' = attempt_number + 1
    /\ invocations' = Append(invocations, out)
    /\ retry_warnings' = IF out.kind = "raise" /\ IsInstance(out.exc, RetryOn(retry_cfg))
                         THEN retry_warnings + 1 ELSE retry_warnings
    /\ IF ~retry_if_exception_type(RetryOn(retry_cfg), out)
       THEN /\ retry_result' = Some(out)
            /\ retry_pc' = IF out.kind = "return" THEN "returned" ELSE "raised"
       ELSE IF attempt_number + 1 > retry_cfg.max_attempts
       THEN /\ retry_result' = Some(Raises(RetryError(out)))
            /\ retry_pc' = "raised"
       ELSE /\ retry_result' = None
            /\ retry_pc' = "calling"
    /\ UNCHANGED retry_cfg

\* one attempt of a call of the wrapper of with_retry: the body of
\* async_wrapper (lines 335-357) or sync_wrapper (lines 365-387) runs func,
\* logs a warning for an exception of the retried type and raises it again;
\* tenacity (lines 328-332, 359-363) then returns, raises, or sleeps and
\* starts the next attempt
Attempt(out) ==
    /\ retry_pc = "calling"
    /\ attempt_number' = attempt_number + 1
    /\ invocations' = Append(invocations, out)
    /\ retry_warnings' = IF out.kind = "raise" /\ IsInstance(out.exc, RetryOn(retry_cfg))
                         THEN retry_warnings + 1 ELSE retry_warnings
    /\ IF ~retry_if_exception_type(RetryOn(retry_cfg), out)
       THEN /\ retry_result' = Some(out)
            /\ retry_pc' = IF out.kind = "return" THEN "returned" ELSE "raised"
       ELSE IF stop_after_attempt(retry_cfg.max_attempts, attempt_number + 1)
       THEN /\ retry_result' = Some(Raises(RetryError(out)))
            /\ retry_pc' = "raised"
       ELSE /\ retry_result' = None
            /\ retry_pc' = "calling"
    /\ UNCHANGED retry_cfg

\* line 389: asyncio.iscoroutinefunction(func) chooses the wrapper
RetryAsyncWrapper == retry_cfg.is_async /\ \E out \in FuncOutcomes(attempt_number + 1) : Attempt(out)
RetrySyncWrapper == ~retry_cfg.is_async /\ \E out \in FuncOutcomes(attempt_number + 1) : Attempt(out)

\* the arguments of with_retry, and whether func is a coroutine function
RetryConfigs ==
    [max_attempts : 0..MaxAttempts, retry_on : {None, Some("ValueError")},
     is_async : BOOLEAN]

(***************************************************************************)
(* arklex/orchestrator/NLU/services/model_service.py:                      *)
(* ModelService.format_intent_input with _process_intent, and              *)
(* ModelService.process_slot_response.  A dict is a function from its keys *)
(* to its values, and the intents dict is the list of its items in         *)
(* iteration order.                                                        *)
(***************************************************************************)
\* d[k] = v on a dict
SetItem(d, k, v) == (k :> v) @@ d

\* the intents the callers pass: names, and variants with or without a
\* definition and sample utterances (attribute.definition,
\* attribute.sample_utterances; absent ones read as "" and [])
IntentNames == {<<"a">>, <<"b">>, <<"c">>}
VariantKinds ==
    {[definition |-> <<>>, sample_utterances |-> <<>>],
     [definition |-> <<"d">>, sample_utterances |-> <<<<"u">>, <<"w">>>>]}
ChatHistories == {<<>>, <<"h">>}
IntentKeyLists ==
    {ks \in SeqsUpTo(IntentNames, MaxIntents) :
        \A i, j \in 1..Len(ks) : ks[i] = ks[j] => i = j}

\* lines 634-646
_format_intent_definition(intent_name, definition, cnt) ==
    IntToStr(cnt) \o <<")", " ">> \o intent_name \o <<":", " ">> \o definition \o <<"\n">>

\* lines 648-665
_format_intent_exemplars(intent_name, sample_utterances, cnt) ==
    IF sample_utterances = <<>> THEN <<>>
    ELSE IntToStr(cnt) \o <<")", " ">> \o intent_name \o <<":", " ", "\n">>
             \o Join(<<"\n">>, sample_utterances) \o <<"\n">>

\* one variant numbered without moving count on
ProcessVariant_NoIncrement(acc, intent_name, intent) ==
    [definition_str |-> acc.definition_str
         \o (IF intent.definition # <<>>
             THEN _format_intent_definition(intent_name, intent.definition, acc.count)
             ELSE <<>>),
     exemplars_str |-> acc.exemplars_str
         \o (IF intent.sample_utterances # <<>>
             THEN _format_intent_exemplars(intent_name, intent.sample_utterances, acc.count)
             ELSE <<>>),
     intents_choice |-> acc.intents_choice
         \o IntToStr(acc.count) \o <<")", " ">> \o intent_name \o <<"\n">>,
     count |-> acc.count,
     mapping |-> SetItem(acc.mapping, IntToStr(acc.count), intent_name)]

\* lines 696-711 and 714-730: one variant is entered in the mapping under
\* str(count), formatted, listed among the choices, and count moves on
ProcessVariant(acc, intent_name, intent) ==
    [definition_str |-> acc.definition_str
         \o (IF intent.definition # <<>>
             THEN _format_intent_definition(intent_name, intent.definition, acc.count)
             ELSE <<>>),
     exemplars_str |-> acc.exemplars_str
         \o (IF intent.sample_utterances # <<>>
             THEN _format_intent_exemplars(intent_name, intent.sample_utterances, acc.count)
             ELSE <<>>),
     intents_choice |-> acc.intents_choice
         \o IntToStr(acc.count) \o <<")", " ">> \o intent_name \o <<"\n">>,
     count |-> acc.count + 1,
     mapping |-> SetItem(acc.mapping, IntToStr(acc.count), intent_name)]

\* f"{intent_k}__<{idx}>"
VariantName(intent_k, idx) == intent_k \o <<"_", "_", "<">> \o IntToStr(idx) \o <<">">>

\* lines 712-730: for idx, intent in enumerate(intent_v), from position idx on
RECURSIVE ProcessVariants(_, _, _, _)
ProcessVariants(acc, intent_k, intent_v, idx) ==
    IF idx >= Len(intent_v) THEN acc
    ELSE ProcessVariants(ProcessVariant(acc, VariantName(intent_k, idx), intent_v[idx + 1]),
                         intent_k, intent_v, idx + 1)

\* _process_intent, lines 667-733: the strings of one intent, the new count,
\* and idx2intents_mapping as the call leaves it
_process_intent(intent_k, intent_v, cnt, mapping) ==
    LET acc == [definition_str |-> <<>>, exemplars_str |-> <<>>, intents_choice |-> <<>>,
                count |-> cnt, mapping |-> mapping]
    IN IF Len(intent_v) = 1 THEN ProcessVariant(acc, intent_k, intent_v[1])
       ELSE ProcessVariants(acc, intent_k, intent_v, 0)

\* lines 852-868: the prompt; each fixed run of text is one atom
Prompt(defs, exemplars, choices, chat) ==
    <<"Given the following intents [...]\n\nIntent Definitions:\n">> \o defs
        \o <<"\n\nSample Utterances:\n">> \o exemplars
        \o <<"\n\nAvailable Intents:\n">> \o choices
        \o <<"\n\nChat History:\n">> \o chat
        \o <<"\n\nPlease choose the most appropriate intent [...]">>

\* lines 843-850: one iteration of for intent_k, intent_v in intents.items()
FormatIntentStep ==
    /\ intent_pc = "loop"
    /\ intent_i < Len(intents)
    /\ LET item == intents[intent_i + 1]
           out == _process_intent(item.k, item.v, count, idx2intents_mapping)
       IN /\ definition_str' = definition_str \o out.definition_str
          /\ exemplars_str' = exemplars_str \o out.exemplars_str
          /\ intents_choice' = intents_choice \o out.intents_choice
          /\ count' = out.count
          /\ idx2intents_mapping' = out.mapping
    /\ intent_i' = intent_i + 1
    /\ UNCHANGED <<intent_pc, intents, chat_history_str, intent_result>>

\* lines 852-870: the loop is over, the prompt is built and returned
FormatIntentReturn ==
    /\ intent_pc = "loop"
    /\ intent_i = Len(intents)
    /\ intent_result' = Some([prompt |-> Prompt(definition_str, exemplars_str,
                                                intents_choice, chat_history_str),
                              idx2intents_mapping |-> idx2intents_mapping])
    /\ intent_pc' = "returned"
    /\ UNCHANGED <<intents, chat_history_str, intent_i, count, idx2intents_mapping,
                   definition_str, exemplars_str, intents_choice>>

\* ---- process_slot_response
\* the values json.loads builds
PyNone == [py |-> "NoneType", v |-> <<>>]
PyStr(s) == [py |-> "str", v |-> s]
PyInt(digits) == [py |-> "int", v |-> digits]
PyList(items) == [py |-> "list", v |-> items]
PyDict(d) == [py |-> "dict", v |-> d]

\* a response is the list of its JSON tokens
Tok(t, v) == [t |-> t, v |-> v]
T_lbrace == Tok("{", <<>>)
T_rbrace == Tok("}", <<>>)
T_lbracket == Tok("[", <<>>)
T_rbracket == Tok("]", <<>>)
T_colon == Tok(":", <<>>)
T_comma == Tok(",", <<>>)
T_null == Tok("null", <<>>)
T_str(s) == Tok("str", s)
T_num(digits) == Tok("num", digits)

\* the responses of the model
Responses ==
    {<<T_lbrace, T_str(<<"a">>), T_colon, T_str(<<"x">>), T_rbrace>>,
     <<T_lbrace, T_str(<<"a">>), T_colon, T_num(<<"5">>), T_comma,
       T_str(<<"b">>), T_colon, T_null, T_rbrace>>,
     <<T_lbrace, T_rbrace>>,
     <<T_lbracket, T_str(<<"b">>), T_rbracket>>,
     <<T_str(<<"b">>)>>,
     <<T_null>>,
     <<T_num(<<"5">>)>>,
     <<T_lbrace, T_str(<<"a">>), T_colon>>,
     <<>>}

\* json.loads for a scalar, a list of scalars or an object of scalars: Some(value),
\* or None for a JSONDecodeError
IsScalar(tok) == tok.t \in {"str", "num", "null"}
ScalarValue(tok) ==
    CASE tok.t = "str" -> PyStr(tok.v)
      [] tok.t = "num" -> PyInt(tok.v)
      [] tok.t = "null" -> PyNone
ParseList(inner) ==
    IF inner = <<>> THEN Some(PyList(<<>>))
    ELSE IF /\ Len(inner) % 2 = 1
            /\ \A i \in 1..Len(inner) :
                  IF i % 2 = 1 THEN IsScalar(inner[i]) ELSE inner[i] = T_comma
    THEN Some(PyList([i \in 1..((Len(inner) + 1) \div 2) |-> ScalarValue(inner[2 * i - 1])]))
    ELSE None
RECURSIVE ObjectItems(_, _)
ObjectItems(inner, d) ==
    IF Len(inner) < 3 THEN d
    ELSE ObjectItems(SubSeq(inner, 5, Len(inner)),
                     SetItem(d, inner[1].v, ScalarValue(inner[3])))
ParseObject(inner) ==
    IF inner = <<>> THEN Some(PyDict(<<>>))
    ELSE IF /\ Len(inner) % 4 = 3
            /\ \A i \in 1..Len(inner) :
                  CASE i % 4 = 1 -> inner[i].t = "str"
                    [] i % 4 = 2 -> inner[i] = T_colon
                    [] i % 4 = 3 -> IsScalar(inner[i])
                    [] i % 4 = 0 -> inner[i] = T_comma
    THEN Some(PyDict(ObjectItems(inner, <<>>)))
    ELSE None
json_loads(s) ==
    IF Len(s) = 1 /\ IsScalar(s[1]) THEN Some(ScalarValue(s[1]))
    ELSE IF Len(s) >= 2 /\ s[1] = T_lbracket /\ s[Len(s)] = T_rbracket
    THEN ParseList(SubSeq(s, 2, Len(s) - 1))
    ELSE IF Len(s) >= 2 /\ s[1] = T_lbrace /\ s[Len(s)] = T_rbrace
    THEN ParseObject(SubSeq(s, 2, Len(s) - 1))
    ELSE None

\* slot_name in extracted_values: a key of a dict, an element of a list, a
\* substring of a str; TypeError for None and for a number
InRaises(ev) == ev.py \in {"NoneType", "int"}
In(slot_name, ev) ==
    CASE ev.py = "dict" -> slot_name \in DOMAIN ev.v
      [] ev.py = "list" -> PyStr(slot_name) \in Range(ev.v)
      [] ev.py = "str" -> Contains(ev.v, slot_name)
\* extracted_values[slot_name] with a str index: TypeError unless a dict
GetItemRaises(ev) == ev.py # "dict"

\* the slots the callers pass: dicts or models, with a value from an earlier turn
SlotNames == {<<"a">>, <<"b">>}
SlotValues == {PyNone, PyStr(<<"o">>)}
Slots == [name : SlotNames, value : SlotValues, is_dict : BOOLEAN]
ValueError(msg) == [type |-> "ValueError", msg |-> msg]

\* lines 954-956: json.loads(response), and lines 974-976 when it fails
SlotParse ==
    /\ slot_pc = "parse"
    /\ LET parsed == json_loads(response)
       IN IF IsNone(parsed)
          THEN /\ slot_pc' = "raised"
               /\ slot_result' = Some(Raises(ValueError(<<"Failed to parse slot filling response: ">>)))
               /\ UNCHANGED extracted_values
          ELSE /\ slot_pc' = "loop"
               /\ extracted_values' = parsed
               /\ UNCHANGED slot_result
    /\ UNCHANGED <<response, slots_arg, slots, slot_i>>

\* lines 959-971: one iteration of for slot in slots; the dict branch and the
\* model branch assign the same value; lines 977-979 when the iteration raises
SlotStep ==
    /\ slot_pc = "loop"
    /\ slot_i < Len(slots)
    /\ LET slot == slots[slot_i + 1]
           ev == Value(extracted_values)
       IN IF InRaises(ev) \/ (In(slot.name, ev) /\ GetItemRaises(ev))
          THEN /\ slot_pc' = "raised"
               /\ slot_result' = Some(Raises(ValueError(<<"Failed to process slot filling response: ">>)))
               /\ UNCHANGED <<slots, slot_i>>
          ELSE /\ slots' = [slots EXCEPT ![slot_i + 1].value =
                               IF In(slot.name, ev) THEN ev.v[slot.name] ELSE PyNone]
               /\ slot_i' = slot_i + 1
               /\ UNCHANGED <<slot_pc, slot_result>>
    /\ UNCHANGED <<response, slots_arg, extracted_values>>

\* line 973: return slots
SlotReturn ==
    /\ slot_pc = "loop"
    /\ slot_i = Len(slots)
    /\ slot_pc' = "returned"
    /\ slot_result' = Some(Returns(slots))
    /\ UNCHANGED <<response, slots_arg, slots, extracted_values, slot_i>>

(***************************************************************************)
(* The specifications.                                                     *)
(***************************************************************************)
LoaderIdle ==
    /\ pc = "idle"
    /\ url_objects = <<>>
    /\ docs = <<>>
    /\ crawl_i = 0
    /\ fetch_log = <<>>
    /\ driver_acquired = 0
    /\ driver_quit = 0
    /\ result = <<>>
    /\ entry = "none"
    /\ local_objs = <<>>
    /\ extract_log = <<>>
    /\ doc_objs = <<>>
    /\ chunk_docs = <<>>
    /\ langchain_docs = <<>>

ExploreIdle ==
    /\ explore_pc = "idle"
    /\ base_arg = <<>>
    /\ base_url = <<>>
    /\ max_num = 0
    /\ web = <<>>
    /\ urls_visited = <<>>
    /\ urls_to_visit = <<>>
    /\ fetched = <<>>
    /\ explore_result = None
    /\ prev_result = None

RankIdle ==
    /\ rank_pc = "idle"
    /\ rank_urls = <<>>
    /\ top_k = 0
    /\ pr = <<>>
    /\ rank_result = <<>>

\* The loader at rest, for the specifications of the other modules.
PipelineIdle ==
    /\ LoaderIdle
    /\ mistral_key = "unset"
    /\ ExploreIdle
    /\ RankIdle

\* logging as imported: the root logger alone, at WARNING
LogIdle ==
    /\ loggers = (RootName :> RootLogger)
    /\ contexts = <<>>
    /\ parent_read = None

\* no decorated function: the configurations are the decorators' defaults
HandleIdle ==
    /\ handle_pc = "idle"
    /\ handle_cfg = [reraise |-> TRUE, default_error |-> "ArklexError",
                     log_level |-> "ERROR", include_stack_trace |-> TRUE,
                     is_async |-> FALSE]
    /\ handle_out = None
    /\ handle_result = None
    /\ handle_logged = <<>>

RetryIdle ==
    /\ retry_pc = "idle"
    /\ retry_cfg = [max_attempts |-> 3, retry_on |-> None, is_async |-> FALSE]
    /\ attempt_number = 0
    /\ invocations = <<>>
    /\ retry_warnings = 0
    /\ retry_result = None

IntentIdle ==
    /\ intent_pc = "idle"
    /\ intents = <<>>
    /\ chat_history_str = <<>>
    /\ intent_i = 0
    /\ count = 0
    /\ idx2intents_mapping = <<>>
    /\ definition_str = <<>>
    /\ exemplars_str = <<>>
    /\ intents_choice = <<>>
    /\ intent_result = None

SlotIdle ==
    /\ slot_pc = "idle"
    /\ response = <<>>
    /\ slots_arg = <<>>
    /\ slots = <<>>
    /\ extracted_values = None
    /\ slot_i = 0
    /\ slot_result = None

NluIdle ==
    /\ IntentIdle
    /\ SlotIdle

ServiceIdle ==
    /\ LogIdle
    /\ HandleIdle
    /\ RetryIdle
    /\ NluIdle

\* The entry points that build records, then chunk.
Init ==
    /\ LoaderIdle
    /\ mistral_key \in {"unset", "placeholder", "set"}
    /\ ExploreIdle
    /\ RankIdle
    /\ ServiceIdle

\* A caller at rest (pc = "idle") may call any entry point with any arguments.
Next ==
    \/ /\ pc = "idle"
       /\ \E url_list \in SeqsUpTo(CrawlSources, MaxUrls) : CrawlStart(url_list)
       /\ UNCHANGED <<explore_vars, rank_vars, service_vars>>
    \/ /\ pc = "idle"
       /\ \E url_list \in SeqsUpTo(CrawlSources, MaxUrls) : CrawlStartRaises(url_list)
       /\ UNCHANGED <<explore_vars, rank_vars, service_vars>>
    \/ \E out \in FetchOutcomes : CrawlItem(out) /\ UNCHANGED <<explore_vars, rank_vars, service_vars>>
    \/ CrawlReturn /\ UNCHANGED <<explore_vars, rank_vars, service_vars>>
    \/ /\ pc = "idle"
       /\ \E text_list \in SeqsUpTo(Texts, MaxTexts) : ToCrawledText(text_list)
       /\ UNCHANGED <<explore_vars, rank_vars, service_vars>>
    \/ /\ pc = "idle"
       /\ \E file_list \in SeqsUpTo(FilePaths, MaxFiles) :
             \E outs \in [1..Len(file_list) -> ExtractOutcomes] :
                ToCrawledLocalObjs(file_list, outs)
       /\ UNCHANGED <<explore_vars, rank_vars, service_vars>>
    \/ Chunk /\ UNCHANGED <<explore_vars, rank_vars, service_vars>>
    \/ Rechunk /\ UNCHANGED <<explore_vars, rank_vars, service_vars>>

Spec == Init /\ [][Next]_vars

\* get_all_urls on a site, executed up to twice with the same arguments.
InitExplore ==
    /\ LoaderIdle
    /\ mistral_key = "unset"
    /\ RankIdle
    /\ ServiceIdle
    /\ explore_pc = "loop"
    /\ base_arg \in Bases
    /\ base_url = Normalize(base_arg)
    /\ max_num \in 0..MaxNum
    /\ web \in Webs
    /\ urls_visited = <<>>
    /\ urls_to_visit = <<base_url>>
    /\ fetched = <<>>
    /\ explore_result = None
    /\ prev_result = None

NextExplore ==
    \/ ExploreVisit /\ UNCHANGED <<loader_vars, rank_vars, service_vars>>
    \/ ExploreSkip /\ UNCHANGED <<loader_vars, rank_vars, service_vars>>
    \/ ExploreReturn /\ UNCHANGED <<loader_vars, rank_vars, service_vars>>
    \/ ExploreAgain /\ UNCHANGED <<loader_vars, rank_vars, service_vars>>

SpecExplore == InitExplore /\ [][NextExplore]_vars

\* One execution of get_all_urls.
NextExploreOnce ==
    \/ ExploreVisit /\ UNCHANGED <<loader_vars, rank_vars, service_vars>>
    \/ ExploreSkip /\ UNCHANGED <<loader_vars, rank_vars, service_vars>>
    \/ ExploreReturn /\ UNCHANGED <<loader_vars, rank_vars, service_vars>>

\* The while loop is sequential code that keeps running: an iteration or the
\* return that can be taken is taken.  The fairness conditions name each step
\* by its guard and the variable it always changes: a step of NextExploreOnce
\* that appends to urls_visited is an ExploreVisit step and can be taken
\* exactly when ExploreVisit can, one that sets explore_pc is ExploreReturn.
VisitTaken ==
    /\ explore_pc = "loop"
    /\ urls_to_visit # <<>>
    /\ Len(urls_visited) < max_num
    /\ Head(urls_to_visit) \notin Range(urls_visited)
    /\ urls_visited' = Append(urls_visited, Head(urls_to_visit))

ReturnTaken ==
    /\ explore_pc = "loop"
    /\ urls_to_visit = <<>> \/ Len(urls_visited) >= max_num
    /\ explore_pc' = "done"

SpecExploreFair ==
    /\ InitExplore
    /\ [][NextExploreOnce]_vars
    /\ WF_urls_visited(VisitTaken)
    /\ WF_vars(ExploreSkip /\ UNCHANGED <<loader_vars, rank_vars, service_vars>>)
    /\ WF_explore_pc(ReturnTaken)

\* get_candidates_websites on a batch of crawled records.
InitRank ==
    /\ LoaderIdle
    /\ mistral_key = "unset"
    /\ ExploreIdle
    /\ ServiceIdle
    /\ rank_pc = "ready"
    /\ \E kinds \in SeqsUpTo(RankKinds, MaxRecords) :
          rank_urls = [i \in 1..Len(kinds) |-> RankRecord(i, kinds[i])]
    /\ top_k \in 0..MaxTopK
    /\ pr = <<>>
    /\ rank_result = <<>>

NextRank == GetCandidatesWebsites /\ UNCHANGED <<loader_vars, explore_vars, service_vars>>

SpecRank == InitRank /\ [][NextRank]_vars

\* LogContext constructions and reads of the parent property, in any order.
InitLog ==
    /\ PipelineIdle
    /\ LogIdle
    /\ HandleIdle
    /\ RetryIdle
    /\ NluIdle

NextLog ==
    \/ /\ \E name \in LoggerNames, level \in LevelArgs : NewLogContext(name, level)
       /\ UNCHANGED <<pipeline_vars, handle_vars, retry_vars, nlu_vars>>
    \/ /\ \E i \in 1..Len(contexts) : ReadParent(i)
       /\ UNCHANGED <<pipeline_vars, handle_vars, retry_vars, nlu_vars>>

SpecLog == InitLog /\ [][NextLog]_vars

\* One call of a function decorated by handle_exceptions.
InitHandle ==
    /\ PipelineIdle
    /\ LogIdle
    /\ RetryIdle
    /\ NluIdle
    /\ handle_pc = "ready"
    /\ handle_cfg \in HandleConfigs
    /\ handle_out = None
    /\ handle_result = None
    /\ handle_logged = <<>>

NextHandle ==
    \/ /\ \E out \in FuncOutcomes(1) : HandleAsyncWrapper(out)
       /\ UNCHANGED <<pipeline_vars, log_vars, retry_vars, nlu_vars>>
    \/ /\ \E out \in FuncOutcomes(1) : HandleSyncWrapper(out)
       /\ UNCHANGED <<pipeline_vars, log_vars, retry_vars, nlu_vars>>

SpecHandle == InitHandle /\ [][NextHandle]_vars

\* One call of a function decorated by with_retry.
InitRetry ==
    /\ PipelineIdle
    /\ LogIdle
    /\ HandleIdle
    /\ NluIdle
    /\ retry_pc = "calling"
    /\ retry_cfg \in RetryConfigs
    /\ attempt_number = 0
    /\ invocations = <<>>
    /\ retry_warnings = 0
    /\ retry_result = None

NextRetry ==
    \/ RetryAsyncWrapper /\ UNCHANGED <<pipeline_vars, log_vars, handle_vars, nlu_vars>>
    \/ RetrySyncWrapper /\ UNCHANGED <<pipeline_vars, log_vars, handle_vars, nlu_vars>>

SpecRetry == InitRetry /\ [][NextRetry]_vars

\* One call of format_intent_input.
InitIntent ==
    /\ PipelineIdle
    /\ LogIdle
    /\ HandleIdle
    /\ RetryIdle
    /\ SlotIdle
    /\ intent_pc = "loop"
    /\ \E ks \in IntentKeyLists :
          \E vs \in [1..Len(ks) -> SeqsUpTo(VariantKinds, MaxVariants)] :
             intents = [i \in 1..Len(ks) |-> [k |-> ks[i], v |-> vs[i]]]
    /\ chat_history_str \in ChatHistories
    /\ intent_i = 0
    /\ count = 1
    /\ idx2intents_mapping = <<>>
    /\ definition_str = <<>>
    /\ exemplars_str = <<>>
    /\ intents_choice = <<>>
    /\ intent_result = None

NextIntent ==
    \/ FormatIntentStep /\ UNCHANGED <<pipeline_vars, log_vars, handle_vars, retry_vars, slot_vars>>
    \/ FormatIntentReturn /\ UNCHANGED <<pipeline_vars, log_vars, handle_vars, retry_vars, slot_vars>>

SpecIntent == InitIntent /\ [][NextIntent]_vars

\* One call of process_slot_response.
InitSlot ==
    /\ PipelineIdle
    /\ LogIdle
    /\ HandleIdle
    /\ RetryIdle
    /\ IntentIdle
    /\ slot_pc = "parse"
    /\ response \in Responses
    /\ slots_arg \in SeqsUpTo(Slots, MaxSlots)
    /\ slots = slots_arg
    /\ extracted_values = None
    /\ slot_i = 0
    /\ slot_result = None

NextSlot ==
    \/ SlotParse /\ UNCHANGED <<pipeline_vars, log_vars, handle_vars, retry_vars, intent_vars>>
    \/ SlotStep /\ UNCHANGED <<pipeline_vars, log_vars, handle_vars, retry_vars, intent_vars>>
    \/ SlotReturn /\ UNCHANGED <<pipeline_vars, log_vars, handle_vars, retry_vars, intent_vars>>

SpecSlot == InitSlot /\ [][NextSlot]_vars

(***************************************************************************)
(* Properties of crawl_urls, to_crawled_text, crawl_file and chunk,        *)
(* checked under Spec.                                                     *)
(***************************************************************************)
CrawlReturned == entry = "crawl_urls" /\ pc \in {"returned", "chunked", "rechunked"}

\* C1: crawl_urls (and to_crawled_url_objs) returns a list as long as its
\* input, whose i-th record has the id and the source of the i-th locator,
\* whichever fetches fail.
C1_SameLengthSameOrder ==
    CrawlReturned =>
        /\ Len(result) = Len(url_objects)
        /\ \A i \in 1..Len(result) :
              /\ result[i].id = url_objects[i].id
              /\ result[i].source = url_objects[i].source

C1_Witness ==
    /\ entry = "crawl_urls" /\ pc = "returned"
    /\ Len(result) = 2
    /\ url_objects[1].source # url_objects[2].source
    /\ fetch_log[1].kind # "ok"
    /\ fetch_log[2].kind = "ok"

\* C2: a fetch or parse that raises for one locator gives that locator a record
\* with is_error true, no content and the caught message, a locator whose
\* fetch succeeds gets a record with content and no error, the batch never
\* ends by raising once the browser runs, and it returns only after every
\* locator was processed.
C2_FailureIsolated ==
    entry = "crawl_urls" =>
        /\ Len(docs) = Len(fetch_log)
        /\ \A i \in 1..Len(docs) :
              IF fetch_log[i].kind = "ok"
              THEN ~docs[i].is_error /\ ~IsNone(docs[i].content)
              ELSE /\ docs[i].is_error
                   /\ IsNone(docs[i].content)
                   /\ docs[i].error_message = Some(fetch_log[i].msg)
        /\ pc = "raised" => driver_acquired = 0
        /\ CrawlReturned => Len(fetch_log) = Len(url_objects) /\ result = docs

C2_Witness ==
    /\ entry = "crawl_urls" /\ pc = "returned"
    /\ Len(result) = 2
    /\ fetch_log[1].kind = "ok" /\ fetch_log[2].kind = "get_raises"
    /\ ~result[1].is_error /\ ~IsNone(result[1].content)
    /\ result[2].is_error /\ IsNone(result[2].content)
    /\ result[2].error_message = Some(<<"e">>)

\* C3: a batch starts the browser once and, once it has started it, quits it
\* exactly once on every way out of the batch, also after items that raised;
\* it is never quit while items remain.
C3_DriverReleasedOnce ==
    /\ driver_acquired <= 1
    /\ pc = "crawling" => driver_acquired = 1 /\ driver_quit = 0
    /\ CrawlReturned => driver_acquired = 1 /\ driver_quit = 1
    /\ (entry = "crawl_urls" /\ pc = "raised") => driver_acquired = 0 /\ driver_quit = 0
    /\ entry # "crawl_urls" => driver_acquired = 0 /\ driver_quit = 0

C3_Witness ==
    /\ entry = "crawl_urls" /\ pc = "returned"
    /\ driver_acquired = 1 /\ driver_quit = 1
    /\ \E i \in 1..Len(fetch_log) : fetch_log[i].kind = "parse_raises"

\* C4: every record built by crawl_urls, to_crawled_text, crawl_file or chunk
\* has is_error true exactly when its content is None, and exactly when its
\* error_message is not None.
ErrorConsistent(r) ==
    /\ r.is_error <=> IsNone(r.content)
    /\ r.is_error <=> ~IsNone(r.error_message)

C4_ErrorFieldsAgree ==
    /\ \A i \in 1..Len(docs) : ErrorConsistent(docs[i])
    /\ \A i \in 1..Len(result) : ErrorConsistent(result[i])
    /\ \A i \in 1..Len(chunk_docs) : ErrorConsistent(chunk_docs[i])

C4_Witness ==
    /\ pc = "chunked"
    /\ entry = "to_crawled_local_objs"
    /\ \E i \in 1..Len(result) : result[i].is_error
    /\ \E i \in 1..Len(result) : ~result[i].is_error
    /\ chunk_docs # <<>>

\* the input records chunk skips, and the number of pieces of a record
Skipped(doc_obj) == doc_obj.is_error \/ IsNone(doc_obj.content)
Pieces(doc_obj) ==
    IF Skipped(doc_obj) \/ doc_obj.is_chunk THEN 0 ELSE Len(SplitText(Value(doc_obj.content)))
RECURSIVE Offset(_)
Offset(j) == IF j <= 1 THEN 0 ELSE Offset(j - 1) + Pieces(doc_objs[j - 1])

\* C13: a record with is_error true or content None contributes no chunk
\* record and no element of the returned list, and the records after it
\* are still chunked: the returned list has one element per piece of the
\* other records, and each of their pieces is there.
C13_ErrorRecordsDropped ==
    pc = "chunked" =>
        /\ \A j \in 1..Len(doc_objs) :
              Skipped(doc_objs[j]) =>
                 /\ \A k \in 1..Len(chunk_docs) :
                       ~StartsWith(chunk_docs[k].id, doc_objs[j].id \o <<"_">>)
                 /\ \A k \in 1..Len(langchain_docs) :
                       \E m \in 1..Len(doc_objs) :
                          /\ ~Skipped(doc_objs[m])
                          /\ langchain_docs[k].metadata = {<<"source", doc_objs[m].source>>}
        /\ Len(langchain_docs) = Offset(Len(doc_objs) + 1)
        /\ Len(chunk_docs) = Offset(Len(doc_objs) + 1)
        /\ \A j \in 1..Len(doc_objs) :
              ~Skipped(doc_objs[j]) =>
                 \A i \in 1..Pieces(doc_objs[j]) :
                    \E k \in 1..Len(chunk_docs) :
                       /\ chunk_docs[k].id = doc_objs[j].id \o <<"_">> \o IntToStr(i - 1)
                       /\ langchain_docs[k].page_content = Value(chunk_docs[k].content)

C13_Witness ==
    /\ pc = "chunked"
    /\ Len(doc_objs) = 2
    /\ Skipped(doc_objs[1])
    /\ ~Skipped(doc_objs[2])
    /\ Len(langchain_docs) >= 2

\* C14: chunk given records that are chunks already does not split them
\* again and hands each of them on into what it returns, so that the
\* second call returns the chunks the first one made.
C14_ChunkIdempotent ==
    pc = "rechunked" =>
        /\ chunk_docs = doc_objs
        /\ Len(langchain_docs) = Len(doc_objs)
        /\ \A k \in 1..Len(langchain_docs) :
              langchain_docs[k] = Document(doc_objs[k], Value(doc_objs[k].content))

FilesReturned == entry = "to_crawled_local_objs"
Pdf == <<"pdf">>
Images == {<<"png">>, <<"jpg">>, <<"jpeg">>}
Presentations == {<<"pptx">>, <<"ppt">>}

\* C16: to_crawled_local_objs ends by returning, never by raising, one
\* record per path in the order of the paths; a path without extension, with
\* an unsupported extension, or whose extractor raises gets a record with
\* is_error true and an error_message, and every other path of the batch
\* gets a record with content.
C16_FileBatchNeverRaises ==
    FilesReturned =>
        /\ pc \in {"returned", "chunked", "rechunked"}
        /\ Len(result) = Len(local_objs)
        /\ \A i \in 1..Len(result) :
              /\ result[i].id = local_objs[i].id
              /\ result[i].source = local_objs[i].source
              /\ IF \/ FileType(local_objs[i].source) = <<>>
                    \/ extract_log[i].extractor = "none"
                    \/ extract_log[i].kind = "raises"
                 THEN result[i].is_error /\ ~IsNone(result[i].error_message)
                 ELSE ~result[i].is_error /\ ~IsNone(result[i].content)

C16_Witness ==
    /\ FilesReturned /\ pc = "returned"
    /\ Len(result) = 2
    /\ FileType(local_objs[1].source) = <<>>
    /\ result[1].is_error /\ result[1].error_message = Some(MsgNoFileType(local_objs[1].source))
    /\ extract_log[2].kind = "ok"
    /\ ~result[2].is_error

\* C17 as stated: with OCR configured a pdf, png, jpg, jpeg, pptx or ppt file
\* goes to OCR; without, a pdf goes to the static PDF extractor and an image
\* or presentation file is unsupported and gets an error record.
C17_DispatchByOcr ==
    FilesReturned =>
        \A i \in 1..Len(result) :
            LET file_type == FileType(local_objs[i].source)
            IN file_type \in {Pdf} \cup Images \cup Presentations =>
                  IF OcrConfigured THEN extract_log[i].extractor = "Mistral"
                  ELSE IF file_type = Pdf THEN extract_log[i].extractor = "PyPDFLoader"
                  ELSE extract_log[i].extractor = "none" /\ result[i].is_error

\* C17 amended: with OCR configured a pdf, png, jpg, jpeg, pptx or ppt file
\* goes to OCR; without, a pdf goes to the static PDF extractor, a pptx or
\* ppt file to the static PowerPoint extractor, and only an image file is
\* unsupported and gets an error record.
C17_DispatchByOcrStaticPresentations ==
    FilesReturned =>
        \A i \in 1..Len(result) :
            LET file_type == FileType(local_objs[i].source)
            IN file_type \in {Pdf} \cup Images \cup Presentations =>
                  IF OcrConfigured THEN extract_log[i].extractor = "Mistral"
                  ELSE IF file_type = Pdf THEN extract_log[i].extractor = "PyPDFLoader"
                  ELSE IF file_type \in Presentations
                  THEN /\ extract_log[i].extractor = "UnstructuredPowerPointLoader"
                       /\ extract_log[i].kind = "ok" => ~result[i].is_error
                  ELSE extract_log[i].extractor = "none" /\ result[i].is_error

C17_Witness ==
    /\ FilesReturned /\ pc = "returned"
    /\ ~OcrConfigured
    /\ Len(result) = 2
    /\ FileType(local_objs[1].source) \in Presentations
    /\ extract_log[1].extractor = "UnstructuredPowerPointLoader"
    /\ ~result[1].is_error
    /\ FileType(local_objs[2].source) \in Images
    /\ result[2].is_error

\* C18: every record an entry point builds (a web page crawled or failed, an
\* inline text, a file read or failed) has the keys title and source in its
\* metadata.
C18_MetadataHasTitleAndSource ==
    /\ \A i \in 1..Len(docs) : {"title", "source"} \subseteq Keys(docs[i].metadata)
    /\ \A i \in 1..Len(result) : {"title", "source"} \subseteq Keys(result[i].metadata)

\* C19: in the record of a page crawled without error, every string inside
\* an anchor is in the content, followed by a blank and the absolute URL of
\* its href, whatever that URL is.
C19_AnchorTextWithUrl ==
    entry = "crawl_urls" =>
        \A i \in 1..Len(docs) :
            fetch_log[i].kind = "ok" =>
                \A k \in 1..Len(fetch_log[i].page.strings) :
                    LET st == fetch_log[i].page.strings[k]
                    IN st.in_a =>
                          Contains(Value(docs[i].content), st.s \o <<" ">> \o st.href)

(***************************************************************************)
(* Properties of get_all_urls, checked under SpecExplore.                  *)
(***************************************************************************)
ExploreDone == explore_pc = "done"
ReturnedList == Value(explore_result)
IsDenylisted(url) == \E k \in 1..Len(kw_list) : EndsWith(url, kw_list[k])

\* the pages within k links of the base URL, and a page's link distance
RECURSIVE Within(_)
Within(k) ==
    IF k = 0 THEN {base_url}
    ELSE LET near == Within(k - 1)
         IN near \cup UNION {GetOutsourceUrls(p, base_url) : p \in near}
Dist(p) ==
    CHOOSE k \in 0..Cardinality(SitePages) :
        p \in Within(k) /\ (k = 0 \/ p \notin Within(k - 1))

\* C5: the list get_all_urls returns is in strictly ascending lexicographic
\* order (sorted, no duplicates) and is at most max_num long.
C5_SortedBounded ==
    ExploreDone =>
        /\ Len(ReturnedList) <= max_num
        /\ \A i \in 1..Len(ReturnedList) : \A j \in 1..Len(ReturnedList) :
              i < j => StrLess(ReturnedList[i], ReturnedList[j])

C5_Witness ==
    /\ ExploreDone
    /\ Len(ReturnedList) = 3
    /\ max_num = 3
    /\ urls_visited # ReturnedList
    /\ urls_to_visit # <<>>

\* C6: every returned URL starts with the normalized base URL and none ends
\* in a denylisted extension, whatever the base URL is.
C6_PrefixAndNoDenylisted ==
    ExploreDone =>
        \A i \in 1..Len(ReturnedList) :
            /\ StartsWith(ReturnedList[i], base_url)
            /\ ~IsDenylisted(ReturnedList[i])

\* C7: pages are visited in non-decreasing link distance from the base URL,
\* and at the end no visited page is farther from the base than a queued
\* page that was not visited.
C7_BreadthFirst ==
    /\ \A i \in 1..Len(urls_visited) : \A j \in 1..Len(urls_visited) :
          i < j => Dist(urls_visited[i]) <= Dist(urls_visited[j])
    /\ ExploreDone =>
          \A v \in Range(urls_visited) : \A u \in Range(urls_to_visit) \ Range(urls_visited) :
              Dist(v) <= Dist(u)

\* C8: a second execution with the same base URL, max_num and site returns
\* the list the first execution returned.
C8_Deterministic ==
    (ExploreDone /\ prev_result # None) => explore_result = prev_result

\* C9: visiting a page whose request raises or answers with another status
\* than 200 appends the page to the visited list, adds no URL to the queue,
\* and leaves the loop running on what remains of the queue.
VisitsFailedPage ==
    /\ explore_pc = "loop"
    /\ urls_to_visit # <<>>
    /\ Len(urls_visited) < max_num
    /\ Head(urls_to_visit) \notin Range(urls_visited)
    /\ web[Head(urls_to_visit)].status # "ok"

C9_FailedPageNoLinks ==
    [][VisitsFailedPage =>
          /\ urls_visited' = Append(urls_visited, Head(urls_to_visit))
          /\ Range(urls_to_visit') = Range(Tail(urls_to_visit))
          /\ explore_pc' = "loop"]_vars

C9_Witness ==
    /\ explore_pc = "loop"
    /\ \E i \in 1..(Len(urls_visited) - 1) :
          /\ web[urls_visited[i]].status = "raises"
          /\ web[urls_visited[i + 1]].status = "non200"

\* C20: every execution of get_all_urls that runs its loop reaches its
\* return, whatever the site and max_num, and when it has returned the
\* queue is empty or max_num pages were visited.
C20_Terminates ==
    /\ (explore_pc = "loop") ~> ExploreDone
    /\ [](ExploreDone => (urls_to_visit = <<>> \/ Len(urls_visited) >= max_num))

\* a return with pages left in the queue, and one with an empty queue before
\* max_num pages were visited
C20_Witness ==
    /\ ExploreDone
    /\ urls_to_visit = <<>>
    /\ 0 < Len(urls_visited) /\ Len(urls_visited) < max_num
    /\ \E p \in SitePages : p \notin Range(urls_visited) /\ web[p].status = "ok"

\* C21 as stated, in the situation the statement names: when the visited
\* count has reached max_num while URLs are still queued, the loop goes on
\* to visit and fetch more than max_num pages before it returns.
C21_OvershootsCeiling ==
    (explore_pc = "loop" /\ urls_to_visit # <<>> /\ Len(urls_visited) >= max_num)
        ~> (Len(urls_visited) > max_num \/ Len(fetched) > max_num)

\* C21 amended: for max_num >= 0 the visited count and the number of pages
\* fetched never exceed max_num, also while URLs are still queued; the
\* truncation at the return removes nothing.
C21_NeverOvershoots ==
    /\ Len(urls_visited) <= max_num
    /\ Len(fetched) <= max_num
    /\ ExploreDone => Len(ReturnedList) = Len(urls_visited)

C21_Witness ==
    /\ ExploreDone
    /\ max_num > 0
    /\ Len(urls_visited) = max_num
    /\ Len(fetched) = max_num
    /\ Len(urls_to_visit) >= 2

\* the links of a fetched page after lines 273-274
Candidates(p) == {Normalize(h) : h \in web[p].links \ {BadHref}}
\* the acceptance rule as C22 states it
AcceptedAsStated(full_url, base) ==
    /\ StartsWith(full_url, base)
    /\ full_url # <<>>
    /\ ~EndsWith(full_url, base)
    /\ ~IsDenylisted(full_url)

\* C22: of the links of a page fetched with status 200, exactly those are
\* accepted that start with the base URL, are not empty, do not end with the
\* base URL and do not end in a denylisted extension; a URL with such an
\* extension in the middle of its path is accepted.
C22_CheckUrlRule ==
    \A i \in 1..Len(fetched) :
        web[fetched[i]].status = "ok" =>
            GetOutsourceUrls(fetched[i], base_url)
                = {u \in Candidates(fetched[i]) : AcceptedAsStated(u, base_url)}

\* C27: urls_visited never holds a URL twice and get_outsource_urls is called
\* at most once per URL, once for each visited URL, also when a visited URL
\* is back on the queue.
C27_VisitedOnce ==
    /\ \A i \in 1..Len(urls_visited) : \A j \in 1..Len(urls_visited) :
          i # j => urls_visited[i] # urls_visited[j]
    /\ \A i \in 1..Len(fetched) : \A j \in 1..Len(fetched) :
          i # j => fetched[i] # fetched[j]
    /\ fetched = urls_visited

\* a visited URL is on the queue again, and the loop has gone past it
C27_Witness ==
    /\ explore_pc = "loop"
    /\ Len(urls_visited) >= 3
    /\ \E i \in 2..Len(urls_visited) :
          /\ web[urls_visited[i]].status = "ok"
          /\ \E k \in 1..(i - 1) :
                urls_visited[k] \in GetOutsourceUrls(urls_visited[i], base_url)

\* C28: a call that ends on an empty queue with fewer than max_num pages
\* visited returns exactly the base URL and every URL reachable from it over
\* links that _check_url accepts on pages fetched with status 200.
C28_AllReachableReturned ==
    (ExploreDone /\ urls_to_visit = <<>> /\ Len(urls_visited) < max_num) =>
        Range(ReturnedList) = Within(Cardinality(SitePages))

C28_Witness ==
    /\ ExploreDone
    /\ urls_to_visit = <<>>
    /\ Len(urls_visited) < max_num
    /\ Len(ReturnedList) = 2
    /\ Dist(ReturnedList[2]) = 1
    /\ \E p \in SitePages : p \notin Range(ReturnedList) /\ web[p].status = "ok"

(***************************************************************************)
(* Properties of get_candidates_websites, checked under SpecRank.          *)
(***************************************************************************)
NonErrorCount == Cardinality({i \in 1..Len(rank_urls) : ~rank_urls[i].is_error})

\* C10: get_candidates_websites returns exactly min(top_k, N) records, N the
\* number of input records that are no error records: none for an empty
\* input, all N when top_k >= N, also when the source of an error record
\* appears in the content of another record.
C10_ReturnsMinTopK ==
    rank_pc = "returned" => Len(rank_result) = Min(top_k, NonErrorCount)

\* the input records that are no error records
NonErrorRecords == {rank_urls[i] : i \in {j \in 1..Len(rank_urls) : ~rank_urls[j].is_error}}

\* C11: the graph get_candidates_websites builds has exactly one node per
\* input record that is no error record, none for an error record, and its
\* edges are exactly the ordered pairs (A, B) of non-error records where
\* B's source is a substring of A's content.
C11_GraphNodesAndEdges ==
    rank_pc # "ready" =>
        LET g == Graph(rank_urls)
        IN /\ Range(g.ids) = {r.id : r \in NonErrorRecords}
           /\ Len(g.ids) = NonErrorCount
           /\ g.edges = {e \in {<<a.id, b.id>> : a \in NonErrorRecords, b \in NonErrorRecords} :
                            \E a \in NonErrorRecords : \E b \in NonErrorRecords :
                               /\ e = <<a.id, b.id>>
                               /\ Contains(Value(a.content), b.source)}

\* the three pages of a chain: A refers to B, B refers to C, C to nothing
ChainRecord(source, content) ==
    CHOOSE r \in Range(rank_urls) : r.source = source /\ r.content = Some(content)
IsChain ==
    /\ Len(rank_urls) = 3
    /\ \E r \in Range(rank_urls) : r.source = P_a /\ r.content = Some(RefB)
    /\ \E r \in Range(rank_urls) : r.source = P_b /\ r.content = Some(RefC)
    /\ \E r \in Range(rank_urls) : r.source = P_c /\ r.content = Some(<<>>)

\* C12 as stated: for the chain A -> B -> C and top_k = 2 the call returns
\* exactly 2 records, B ranked first (above A and above C), and B's score is
\* at least C's.
C12_ChainRanksBFirst ==
    (rank_pc # "ready" /\ IsChain /\ top_k = 2) =>
        /\ rank_pc = "returned"
        /\ Len(rank_result) = 2
        /\ rank_result[1] = ChainRecord(P_b, RefC)
        /\ pr[ChainRecord(P_b, RefC).id] >= pr[ChainRecord(P_c, <<>>).id]

\* C12 amended: for the chain A -> B -> C and top_k = 2 the call returns
\* exactly the 2 records C, B in this order; B ranks above A, and C, which
\* receives B's whole score, scores strictly more than B.
C12_ChainRanksCThenB ==
    (rank_pc # "ready" /\ IsChain /\ top_k = 2) =>
        /\ rank_pc = "returned"
        /\ rank_result = <<ChainRecord(P_c, <<>>), ChainRecord(P_b, RefC)>>
        /\ pr[ChainRecord(P_b, RefC).id] > pr[ChainRecord(P_a, RefB).id]
        /\ pr[ChainRecord(P_c, <<>>).id] > pr[ChainRecord(P_b, RefC).id]

C12_Witness ==
    /\ rank_pc = "returned"
    /\ IsChain
    /\ top_k = 2
    /\ rank_urls[1].source = P_b
    /\ Len(rank_result) = 2

(***************************************************************************)
(* Properties of LogContext, checked under SpecLog.                        *)
(***************************************************************************)
Dotted(name) == Contains(name, <<".">>)
ConsoleHandler(h) ==
    /\ h.class = "StreamHandler"
    /\ "RequestIdFilter" \in Range(h.filters)
    /\ "ContextFilter" \in Range(h.filters)

\* C23: after any sequence of LogContext constructions (several for one logger
\* name included) and reads of properties, every LogContext exposes exactly
\* one handler, a console StreamHandler that carries a RequestIdFilter and a
\* ContextFilter, and has propagate true.
C23_OneConsoleHandler ==
    \A i \in 1..Len(contexts) :
        /\ Len(LogContext_handlers(contexts[i])) = 1
        /\ \A k \in 1..Len(LogContext_handlers(contexts[i])) :
              ConsoleHandler(LogContext_handlers(contexts[i])[k])
        /\ LogContext_propagate(contexts[i])

\* the level a construction asks its logger to have
LevelAsked(ctx) == IF Dotted(ctx.logger) THEN LevelOf("NOTSET") ELSE LevelOf(ctx.level)
\* the name before the last dot of a dotted name
NameBeforeLastDot(name) ==
    CHOOSE a \in DotPrefixes(name) : \A b \in DotPrefixes(name) : Len(b) <= Len(a)
\* the latest LogContext of a name among the first n constructed
LatestOf(name, n) ==
    CHOOSE j \in 1..n :
        /\ contexts[j].logger = name
        /\ \A k \in (j + 1)..n : contexts[k].logger # name

\* C24: a LogContext of a dotted name has level NOTSET whatever level was
\* passed; a LogContext of an undotted name has the level that the latest
\* construction for its name requested; and the parent property read on a
\* child "p.c", when a LogContext of "p" was constructed before, returns a
\* LogContext with the name "p" and the level of that LogContext.
C24_LevelsAndParent ==
    /\ \A i \in 1..Len(contexts) :
          Dotted(contexts[i].logger) => LogContext_level(contexts[i]) = LevelOf("NOTSET")
    /\ \A i \in 1..Len(contexts) :
          (/\ ~Dotted(contexts[i].logger)
           /\ \A k \in (i + 1)..Len(contexts) : contexts[k].logger # contexts[i].logger)
              => LogContext_level(contexts[i]) = LevelOf(contexts[i].level)
    /\ \A r \in Range(parent_read) :
          (/\ r.returned = Some(Len(contexts))
           /\ Dotted(contexts[r.of].logger)
           /\ \E j \in 1..(Len(contexts) - 1) :
                 contexts[j].logger = NameBeforeLastDot(contexts[r.of].logger))
              => LET parent == contexts[Len(contexts)]
                     p == NameBeforeLastDot(contexts[r.of].logger)
                 IN /\ LogContext_name(parent) = p
                    /\ LogContext_level(parent)
                          = LevelAsked(contexts[LatestOf(p, Len(contexts) - 1)])

\* the parent property was read on "p.c" after LogContext("p", "DEBUG") and
\* LogContext("p.c", "ERROR")
C24_Witness ==
    /\ \E r \in Range(parent_read) :
          /\ r.returned = Some(Len(contexts))
          /\ contexts[r.of] = [logger |-> N_pc, level |-> "ERROR"]
    /\ [logger |-> N_p, level |-> "DEBUG"] \in Range(contexts)
    /\ LogContext_level(contexts[Len(contexts)]) = LevelOf("DEBUG")

(***************************************************************************)
(* Properties of handle_exceptions, checked under SpecHandle.              *)
(***************************************************************************)
HandleDone == handle_pc \in {"returned", "raised"}

\* C26: a call of a function wrapped by handle_exceptions raises the very
\* ArklexError the function raised, never a replacement; for any other
\* Exception it raises a new instance of default_error whose details hold the
\* original error when reraise is true, and returns None when reraise is
\* false; and it returns the function's return value unchanged.
C26_HandleExceptions ==
    HandleDone =>
        LET out == Value(handle_out)
            res == Value(handle_result)
        IN IF out.kind = "return"
           THEN /\ handle_pc = "returned"
                /\ res.kind = "return"
                /\ res.value = out.value
           ELSE IF IsInstance(out.exc, "ArklexError")
           THEN /\ handle_pc = "raised"
                /\ res.kind = "raise"
                /\ res.exc = out.exc
           ELSE IF handle_cfg.reraise
           THEN /\ handle_pc = "raised"
                /\ res.kind = "raise"
                /\ res.exc.id # out.exc.id
                /\ res.exc.type = handle_cfg.default_error
                /\ <<"original_error", out.exc.msg>> \in res.exc.details
                /\ <<"error_type", <<out.exc.type>>>> \in res.exc.details
           ELSE /\ handle_pc = "returned"
                /\ res.kind = "return"
                /\ res.value = None

\* a ValueError was replaced by an AuthenticationError, the default_error
C26_Witness ==
    /\ handle_pc = "raised"
    /\ handle_cfg.reraise
    /\ handle_cfg.default_error = "AuthenticationError"
    /\ Value(handle_out).kind = "raise"
    /\ Value(handle_out).exc.type = "ValueError"
    /\ Value(handle_result).exc.type = "AuthenticationError"

(***************************************************************************)
(* Properties of with_retry, checked under SpecRetry.                      *)
(***************************************************************************)
RetryDone == retry_pc \in {"returned", "raised"}
Retried(out) == out.kind = "raise" /\ IsInstance(out.exc, RetryOn(retry_cfg))
Max(a, b) == IF a >= b THEN a ELSE b

\* what holds of every call whatever the ceiling: only an invocation that
\* raised an exception of the retried type is followed by another one, a
\* returned value and an exception of another type end the call as they are
RetryOrder ==
    /\ \A i \in 1..(Len(invocations) - 1) : Retried(invocations[i])
    /\ \A i \in 1..Len(invocations) :
          ~Retried(invocations[i])
              => /\ i = Len(invocations)
                 /\ retry_result = Some(invocations[i])
                 /\ retry_pc = IF invocations[i].kind = "return" THEN "returned"
                                ELSE "raised"

\* C25 as stated: a function wrapped by with_retry(max_attempts=n) is invoked
\* at most n times per call, again only after an exception of the retried
\* type, never again after a return value or another exception, and after n
\* failures of the retried type the call ends with an exception.
C25_AtMostNInvocations ==
    /\ Len(invocations) <= retry_cfg.max_attempts
    /\ RetryOrder
    /\ (/\ Len(invocations) > 0
        /\ Len(invocations) >= retry_cfg.max_attempts
        /\ \A i \in 1..Len(invocations) : Retried(invocations[i]))
           => /\ retry_pc = "raised"
              /\ Value(retry_result).kind = "raise"

\* C25, amended: the function is invoked at most max(n, 1) times per call,
\* again only after an exception of the retried type, never again after a
\* return value or another exception, and after max(n, 1) failures of the
\* retried type the call ends with a RetryError that holds the last of them.
C25_AtMostMaxN1Invocations ==
    /\ Len(invocations) <= Max(retry_cfg.max_attempts, 1)
    /\ RetryOrder
    /\ (/\ Len(invocations) >= Max(retry_cfg.max_attempts, 1)
        /\ \A i \in 1..Len(invocations) : Retried(invocations[i]))
           => /\ retry_pc = "raised"
              /\ Value(retry_result).kind = "raise"
              /\ Value(retry_result).exc.type = "RetryError"
              /\ <<"last_attempt", invocations[Len(invocations)].exc.id>>
                    \in Value(retry_result).exc.details

\* three failures of the retried type under max_attempts=3 ended the call
C25_Witness ==
    /\ retry_cfg.max_attempts = 3
    /\ Len(invocations) = 3
    /\ \A i \in 1..3 : Retried(invocations[i])
    /\ retry_pc = "raised"

(***************************************************************************)
(* Properties of format_intent_input, checked under SpecIntent.            *)
(***************************************************************************)
\* the names the variants of one intent are to be listed under
NamesOf(item) ==
    IF Len(item.v) = 1 THEN <<item.k>>
    ELSE [j \in 1..Len(item.v) |-> VariantName(item.k, j - 1)]
RECURSIVE NamesInOrder(_)
NamesInOrder(items) ==
    IF items = <<>> THEN <<>> ELSE NamesOf(Head(items)) \o NamesInOrder(Tail(items))
RECURSIVE TotalVariants(_)
TotalVariants(items) ==
    IF items = <<>> THEN 0 ELSE Len(Head(items).v) + TotalVariants(Tail(items))
\* the lines "i) name" of a mapping, for i = 1..n
RECURSIVE ChoiceLines(_, _)
ChoiceLines(m, n) ==
    IF n = 0 THEN <<>>
    ELSE ChoiceLines(m, n - 1) \o IntToStr(n) \o <<")", " ">> \o m[IntToStr(n)] \o <<"\n">>
\* the text of the prompt between two of its headings
Between(s, a, b) ==
    LET i == CHOOSE k \in 1..Len(s) : s[k] = a
        j == CHOOSE k \in 1..Len(s) : s[k] = b
    IN SubSeq(s, i + 1, j - 1)

\* C29: format_intent_input returns a mapping whose keys are exactly "1".."n",
\* n the number of variants of all intents together, numbered in iteration
\* order: the one variant of an intent under the intent's name, the k > 1
\* variants of an intent under name__<0> .. name__<k-1>; and the choice list
\* of the returned prompt numbers the names as the mapping does.
C29_MappingNumbersVariants ==
    intent_pc = "returned" =>
        LET m == Value(intent_result).idx2intents_mapping
            n == TotalVariants(intents)
        IN /\ DOMAIN m = {IntToStr(i) : i \in 1..n}
           /\ Len(NamesInOrder(intents)) = n
           /\ \A i \in 1..n : m[IntToStr(i)] = NamesInOrder(intents)[i]
           /\ Between(Value(intent_result).prompt, "\n\nAvailable Intents:\n",
                      "\n\nChat History:\n") = ChoiceLines(m, n)

\* an intent of one variant after an intent of two: keys "1", "2", "3"
C29_Witness ==
    /\ intent_pc = "returned"
    /\ Len(intents) = 2
    /\ Len(intents[1].v) = 2
    /\ Len(intents[2].v) = 1
    /\ Value(intent_result).idx2intents_mapping[<<"3">>] = intents[2].k

(***************************************************************************)
(* Properties of process_slot_response, checked under SpecSlot.            *)
(***************************************************************************)
\* C30: process_slot_response either returns the slots with the value of every
\* slot set, to the extracted value when the slot's name is a key of the
\* parsed response and to None otherwise, or raises ValueError with the value
\* of every slot as it was; no failure leaves some of the slots updated.
C30_AllOrNothing ==
    /\ slot_pc = "returned" =>
          /\ Value(slot_result) = Returns(slots)
          /\ Len(slots) = Len(slots_arg)
          /\ \A i \in 1..Len(slots) :
                /\ slots[i].name = slots_arg[i].name
                /\ slots[i].value = IF In(slots[i].name, Value(extracted_values))
                                     THEN Value(extracted_values).v[slots[i].name]
                                     ELSE PyNone
    /\ slot_pc = "raised" =>
          /\ Value(slot_result).kind = "raise"
          /\ Value(slot_result).exc.type = "ValueError"
          /\ slots = slots_arg
====
